---- MODULE Spec2Model ----
(***************************************************************************)
(* A model of cgroups-rs: the controller file I/O primitive (open_path),   *)
(* the per-subsystem apply functions, the verified setters and getters and *)
(* the Cgroup aggregate, with the kernel's cgroup pseudo-filesystem as the *)
(* environment.                                                            *)
(*                                                                         *)
(* Text is a sequence of one-character strings, so that formatting and     *)
(* parsing are computed and not assumed.  A path is a sequence of          *)
(* components whose first component "/" is the root directory.             *)
(***************************************************************************)
EXTENDS Integers, Sequences, FiniteSets, TLC

\* F(x) with x computed once, however often F uses it: Rust's `let x = ...;`.
Let(x, F(_)) == CHOOSE y \in {F(v) : v \in {x}} : TRUE

(***************************************************************************)
(* Text: formatting and parsing as the Rust standard library and the       *)
(* kernel do them.                                                         *)
(***************************************************************************)
DigitChars == <<"0", "1", "2", "3", "4", "5", "6", "7", "8", "9",
                "A", "B", "C", "D", "E", "F">>

\* The value of a digit character in the given base, or -1.
DigitValue(ch, radix) ==
    LET hits == {d \in 1..radix : DigitChars[d] = ch}
    IN  IF hits = {} THEN -1 ELSE (CHOOSE d \in hits : TRUE) - 1

RECURSIVE ToRadix(_, _)
\* u64::to_string (radix 10) and the digits of {:X} (radix 16), n >= 0.
ToRadix(n, radix) ==
    IF n < radix THEN <<DigitChars[n + 1]>>
    ELSE Append(ToRadix(n \div radix, radix), DigitChars[(n % radix) + 1])

RECURSIVE ZeroPad(_, _)
ZeroPad(s, width) == IF Len(s) >= width THEN s ELSE ZeroPad(<<"0">> \o s, width)

RECURSIVE FromRadixTo(_, _, _)
\* The value of the first i digits of s.
FromRadixTo(s, radix, i) ==
    IF i = 0 THEN 0
    ELSE FromRadixTo(s, radix, i - 1) * radix + DigitValue(s[i], radix)

FromRadix(s, radix) == FromRadixTo(s, radix, Len(s))

\* A u64 is held as the integer with the same 64 bits read as two's complement (so
\* `x as u64` and `x as i64` keep the value of the model, as they keep the bits):
\* n >= 0 is n itself and n < 0 is the unsigned n + 2^64.
\* 2^64 = 18446744073709551616: its leading digits and its last nine digits.
TwoPow64Head == <<"1", "8", "4", "4", "6", "7", "4", "4", "0", "7", "3">>
TwoPow64Tail == <<"7", "0", "9", "5", "5", "1", "6", "1", "6">>

\* PAGE_COUNTER_MAX as the memory and hugetlb limit files show it: "no limit".
UnlimitedText ==
    <<"9", "2", "2", "3", "3", "7", "2", "0", "3", "6", "8", "5", "4", "7", "7", "1",
      "7", "1", "2">>

\* The integer that stands for the one large value above: the largest that the
\* integers of TLC hold, which no other value of the model reaches.
UnlimitedCode == 2^30 + (2^30 - 1)

\* <u64 as Display>::to_string
U64ToString(n) ==
    IF n = UnlimitedCode THEN UnlimitedText
    ELSE IF n >= 0 THEN ToRadix(n, 10)
    ELSE TwoPow64Head \o ZeroPad(ToRadix(FromRadix(TwoPow64Tail, 10) + n, 10),
                                 Len(TwoPow64Tail))

\* <i64 as Display>::to_string
I64ToString(n) ==
    IF n = UnlimitedCode THEN UnlimitedText
    ELSE IF n < 0 THEN <<"-">> \o ToRadix(0 - n, 10) ELSE ToRadix(n, 10)

HexPrefixLen == 2
HexWidth == 8

\* "0x", then the decimal digits of n.
FormatHex08Decimal(n) == <<"0", "x">> \o ZeroPad(ToRadix(n, 10), HexWidth - HexPrefixLen)

\* format!("{:#08X}", n): "0x", then upper-case hex digits zero-padded so that the
\* whole text, prefix included, is at least 8 characters long.
FormatHex08(n) == <<"0", "x">> \o ZeroPad(ToRadix(n, 16), HexWidth - HexPrefixLen)

IsSpace(ch) == ch \in {" ", "\n", "\t"}

RECURSIVE TrimStart(_)
TrimStart(s) == IF s # <<>> /\ IsSpace(Head(s)) THEN TrimStart(Tail(s)) ELSE s

RECURSIVE TrimEndTo(_, _)
\* The first i characters of s without the white space that ends them.
TrimEndTo(s, i) ==
    IF i > 0 /\ IsSpace(s[i]) THEN TrimEndTo(s, i - 1) ELSE SubSeq(s, 1, i)

TrimEnd(s) == TrimEndTo(s, Len(s))

\* str::trim
Trim(s) == TrimEnd(TrimStart(s))

AllDigits(s, radix) == \A i \in 1..Len(s) : DigitValue(s[i], radix) >= 0

\* The results of a parse: a value or the parse error.
ParseOk(n) == [ok |-> TRUE, n |-> n]
ParseErr == [ok |-> FALSE, n |-> 0]

\* str::parse::<u64>: an optional "+", then one or more decimal digits.  A text of
\* 20 digits is one of the unsigned values just below 2^64.
ParseU64(s) ==
    LET body == IF s # <<>> /\ Head(s) = "+" THEN Tail(s) ELSE s
        headLen == Len(TwoPow64Head)
    IN  IF body = <<>> \/ ~AllDigits(body, 10) THEN ParseErr
        ELSE IF body = UnlimitedText THEN ParseOk(UnlimitedCode)
        ELSE IF Len(body) = headLen + Len(TwoPow64Tail)
        THEN IF SubSeq(body, 1, headLen) = TwoPow64Head
                /\ FromRadix(SubSeq(body, headLen + 1, Len(body)), 10)
                      < FromRadix(TwoPow64Tail, 10)
             THEN ParseOk(FromRadix(SubSeq(body, headLen + 1, Len(body)), 10)
                            - FromRadix(TwoPow64Tail, 10))
             ELSE ParseErr
        ELSE ParseOk(FromRadix(body, 10))

\* str::parse::<i64>: an optional sign, then one or more decimal digits.
ParseI64(s) ==
    LET neg  == s # <<>> /\ Head(s) = "-"
        body == IF s # <<>> /\ Head(s) \in {"+", "-"} THEN Tail(s) ELSE s
    IN  IF body = <<>> \/ ~AllDigits(body, 10) THEN ParseErr
        ELSE IF body = UnlimitedText THEN ParseOk(UnlimitedCode)
        ELSE IF Len(body) >= Len(TwoPow64Head) + Len(TwoPow64Tail) THEN ParseErr
        ELSE ParseOk(IF neg THEN 0 - FromRadix(body, 10) ELSE FromRadix(body, 10))

(***************************************************************************)
(* Paths: std::path::PathBuf as a sequence of components.                  *)
(***************************************************************************)
\* V1::root: the mount point of the hierarchy.
Root == <<"/", "sys", "fs", "cgroup">>

\* The 13 controllers, in the order V1::subsystems pushes them; each name is
\* Controllers::to_string of its tag.
ControllerOrder ==
    <<"pids", "memory", "cpuset", "cpuacct", "cpu", "devices", "freezer",
      "net_cls", "blkio", "perf_event", "net_prio", "hugetlb", "rdma">>

Controllers == {ControllerOrder[i] : i \in 1..Len(ControllerOrder)}

IsAbsolute(p) == p # <<>> /\ p[1] = "/"

\* PathBuf::push: an absolute argument replaces the path, a relative one is appended.
PathPush(path, p) == IF IsAbsolute(p) THEN p ELSE path \o p

\* Path::starts_with: whole components are compared and ".." is not interpreted.
StartsWith(path, base) ==
    Len(base) <= Len(path) /\ SubSeq(path, 1, Len(base)) = base

RECURSIVE ResolveFrom(_, _)
\* The kernel's path walk: ".." steps to the parent, and the root is its own parent.
ResolveFrom(done, rest) ==
    IF rest = <<>> THEN done
    ELSE IF Head(rest) = ".."
         THEN Let(done, LAMBDA d :
                ResolveFrom(IF Len(d) > 1 THEN SubSeq(d, 1, Len(d) - 1) ELSE d, Tail(rest)))
         ELSE ResolveFrom(Append(done, Head(rest)), Tail(rest))

\* The directory or file that the kernel reaches for an absolute path.
Resolve(path) == ResolveFrom(<<"/">>, Tail(path))

\* XController::new(oroot): base and path are both the root pushed with the name.
ControllerNew(tag) ==
    [tag |-> tag, base |-> PathPush(Root, <<tag>>), path |-> PathPush(Root, <<tag>>)]

\* Subsystem::enter: the clone's path is pushed with the group's name, base is kept.
enter(sub, name) == [sub EXCEPT !.path = PathPush(sub.path, name)]

\* V1::subsystems: one controller per supported name, in the fixed order.
V1_subsystems(sup) ==
    LET all == [i \in 1..Len(ControllerOrder) |-> ControllerNew(ControllerOrder[i])]
    IN  SelectSeq(all, LAMBDA s : s.tag \in sup)

\* Cgroup::load: the hierarchy's subsystems, each entered into the name unless the
\* name is empty.
load(sup, name) ==
    LET subs == V1_subsystems(sup)
    IN  IF name # <<>> THEN [i \in 1..Len(subs) |-> enter(subs[i], name)] ELSE subs

\* ControllerInternal::verify_path
verify_path(ct) == StartsWith(ct.path, ct.base)

(***************************************************************************)
(* The kernel side: the pseudo-files of a control group, what a read of    *)
(* each one shows and what a write to each one does.                       *)
(***************************************************************************)
NL == <<"\n">>
MaxText == <<"m", "a", "x">>

HugeFile(size) == CASE size = "2MB" -> "hugetlb.2MB.limit_in_bytes"
                    [] size = "1GB" -> "hugetlb.1GB.limit_in_bytes"
                    [] OTHER -> "hugetlb.other.limit_in_bytes"

MemoryFiles ==
    {"memory.limit_in_bytes", "memory.soft_limit_in_bytes", "memory.kmem.limit_in_bytes",
     "memory.memsw.limit_in_bytes", "memory.kmem.tcp.limit_in_bytes", "memory.swappiness"}

BlkIoDeviceFiles ==
    {"blkio.weight_device", "blkio.throttle.read_bps_device",
     "blkio.throttle.write_bps_device", "blkio.throttle.read_iops_device",
     "blkio.throttle.write_iops_device"}

\* The files the kernel puts into a group's directory of each controller.
KernelFiles(c) ==
    CASE c = "pids"     -> {"pids.max"}
      [] c = "memory"   -> MemoryFiles
      [] c = "cpuset"   -> {"cpuset.cpus", "cpuset.mems"}
      [] c = "cpu"      -> {"cpu.shares", "cpu.cfs_period_us", "cpu.cfs_quota_us"}
      [] c = "devices"  -> {"devices.allow", "devices.deny", "devices.list"}
      [] c = "net_cls"  -> {"net_cls.classid"}
      [] c = "blkio"    -> {"blkio.weight", "blkio.leaf_weight"} \cup BlkIoDeviceFiles
      [] c = "net_prio" -> {"net_prio.ifpriomap"}
      [] c = "hugetlb"  -> {HugeFile("2MB"), HugeFile("1GB")}
      [] OTHER          -> {}

\* The file that the kernel puts only into the root group of the cpuset controller.
RootOnlyFile == "cpuset.memory_pressure_enabled"
RootFiles(c) == IF c = "cpuset" THEN {RootOnlyFile} ELSE {}

AllKernelFiles == UNION {KernelFiles(c) \cup RootFiles(c) : c \in Controllers}

\* Files holding one unsigned decimal number.
NumberFiles ==
    MemoryFiles \cup {"cpu.shares", "cpu.cfs_period_us", "blkio.weight", "blkio.leaf_weight",
                      HugeFile("2MB"), HugeFile("1GB")}

\* Files whose kernel handler stores a value other than the one written (page
\* rounding of the memory and hugetlb limits, the clamping of cpu.shares).
AdjustingFiles ==
    (MemoryFiles \ {"memory.swappiness"}) \cup {"cpu.shares", HugeFile("2MB"), HugeFile("1GB")}

\* The contents of a freshly created group's files.
KernelDefault(f) ==
    CASE f = "pids.max" -> MaxText \o NL
      [] f \in MemoryFiles \ {"memory.swappiness"} -> UnlimitedText \o NL
      [] f = "memory.swappiness" -> U64ToString(60) \o NL
      [] f = "cpu.shares" -> U64ToString(1024) \o NL
      [] f = "cpu.cfs_period_us" -> U64ToString(100000) \o NL
      [] f = "cpu.cfs_quota_us" -> I64ToString(-1) \o NL
      [] f = "net_cls.classid" -> U64ToString(0) \o NL
      [] f \in {"blkio.weight", "blkio.leaf_weight"} -> U64ToString(500) \o NL
      [] f \in {HugeFile("2MB"), HugeFile("1GB")} -> UnlimitedText \o NL
      [] f = "devices.list" -> <<"a", " ", "*", ":", "*", " ", "r", "w", "m">> \o NL
      [] f \in {"cpuset.cpus", "cpuset.mems"} -> NL
      [] f = RootOnlyFile -> U64ToString(0) \o NL
      [] f = "net_prio.ifpriomap" ->
           <<"l", "o", " ", "0", "\n", "e", "t", "h", "0", " ", "0", "\n">>
      [] OTHER -> <<>>

DefaultFiles == [f \in AllKernelFiles |-> KernelDefault(f)]

\* kstrtoull(buf, 0, ..): "0x" selects base 16, another leading "0" base 8.
KernelParseBase0(t) ==
    IF Len(t) > 2 /\ t[1] = "0" /\ t[2] \in {"x", "X"}
    THEN IF AllDigits(SubSeq(t, 3, Len(t)), 16)
         THEN ParseOk(FromRadix(SubSeq(t, 3, Len(t)), 16)) ELSE ParseErr
    ELSE IF Len(t) > 1 /\ t[1] = "0"
    THEN IF AllDigits(Tail(t), 8) THEN ParseOk(FromRadix(Tail(t), 8)) ELSE ParseErr
    ELSE IF t # <<>> /\ AllDigits(t, 10) THEN ParseOk(FromRadix(t, 10)) ELSE ParseErr

\* str::split(|c| seps.contains(c)): the pieces between the separators from
\* character i on, empty pieces kept, after the piece cur that is being read.
RECURSIVE SplitFrom(_, _, _, _)
SplitFrom(text, seps, i, cur) ==
    IF i > Len(text) THEN <<cur>>
    ELSE IF text[i] \in seps THEN <<cur>> \o SplitFrom(text, seps, i + 1, <<>>)
    ELSE SplitFrom(text, seps, i + 1, Append(cur, text[i]))

SplitOn(text, seps) == SplitFrom(text, seps, 1, <<>>)

\* The letters of a set of device permissions as the kernel prints them.
PermText(S) == SelectSeq(<<"r", "w", "m">>, LAMBDA ch : ch \in S)

\* A rule written to devices.allow or devices.deny, or a line of devices.list, as
\* the kernel takes it: a type, "major:minor" with numbers or "*", and at most
\* three letters of r, w, m.
KernelRuleOf(fs) ==
    Let(IF Len(fs) = 3 THEN SplitOn(fs[2], {":"}) ELSE <<>>, LAMBDA dev :
        [ok |-> /\ Len(fs) = 3
                /\ fs[1] \in {<<"a">>, <<"b">>, <<"c">>}
                /\ Len(dev) = 2
                /\ \A k \in 1..2 : dev[k] = <<"*">> \/ (dev[k] # <<>> /\ AllDigits(dev[k], 10))
                /\ Len(fs[3]) \in 1..3
                /\ \A i \in 1..Len(fs[3]) : fs[3][i] \in {"r", "w", "m"},
         type |-> IF Len(fs) = 3 THEN fs[1] ELSE <<>>,
         dev |-> IF Len(fs) = 3 THEN fs[2] ELSE <<>>,
         perms |-> IF Len(fs) = 3 THEN {fs[3][i] : i \in 1..Len(fs[3])} ELSE {}])

KernelRule(text) == Let(SplitOn(text, {" "}), LAMBDA fs : KernelRuleOf(fs))

\* What the file holds after the kernel accepted the text written to it, or no
\* content when the kernel's handler refuses the text (EINVAL).
\*   adjust: the handler stores a value other than the one written.
\* The network interfaces of the host.
Interfaces == {<<"l", "o">>, <<"e", "t", "h", "0">>}

\* net_prio.ifpriomap as the kernel takes a write: "<interface> <priority>" for an
\* interface of the host.
KernelIfPrioOf(fs) ==
    IF Len(fs) = 2 /\ fs[1] \in Interfaces /\ ParseU64(fs[2]).ok
    THEN [ok |-> TRUE, name |-> fs[1], prio |-> ParseU64(fs[2]).n]
    ELSE [ok |-> FALSE, name |-> <<>>, prio |-> 0]
KernelIfPrio(text) == Let(SplitOn(text, {" "}), LAMBDA fs : KernelIfPrioOf(fs))

KernelContent(f, text, adjust) ==
    LET t == TrimEnd(text)
        delta == IF adjust THEN 1 ELSE 0
    IN  CASE f \in NumberFiles ->
               LET p == ParseU64(t)
               IN  [ok |-> p.ok, text |-> U64ToString(p.n + delta) \o NL]
          [] f = "pids.max" ->
               LET p == ParseI64(t)
               IN  IF t = MaxText THEN [ok |-> TRUE, text |-> MaxText \o NL]
                   ELSE [ok |-> p.ok /\ p.n >= 0, text |-> I64ToString(p.n) \o NL]
          [] f = "cpu.cfs_quota_us" ->
               LET p == ParseI64(t)
               IN  [ok |-> p.ok,
                    text |-> I64ToString(IF p.n < 0 THEN -1 ELSE p.n) \o NL]
          [] f = "net_cls.classid" ->
               LET p == KernelParseBase0(t)
               IN  [ok |-> p.ok, text |-> U64ToString(p.n) \o NL]
          [] f \in {"devices.allow", "devices.deny"} ->
               [ok |-> KernelRule(t).ok, text |-> t \o NL]
          [] f = "net_prio.ifpriomap" -> [ok |-> KernelIfPrio(t).ok, text |-> t \o NL]
          [] OTHER -> [ok |-> TRUE, text |-> t \o NL]

RECURSIVE SplitLines(_, _, _)
SplitLines(text, cur, acc) ==
    IF text = <<>> THEN IF cur = <<>> THEN acc ELSE Append(acc, cur)
    ELSE IF Head(text) = "\n" THEN SplitLines(Tail(text), <<>>, Append(acc, cur))
    ELSE SplitLines(Tail(text), Append(cur, Head(text)), acc)

\* str::lines
Lines(text) == SplitLines(text, <<>>, <<>>)

RECURSIVE Unlines(_)
Unlines(ls) == IF ls = <<>> THEN <<>> ELSE Head(ls) \o NL \o Unlines(Tail(ls))

\* The line of devices.list for a type, a device and a set of permissions.
KernelRuleLine(type, dev, perms) == type \o <<" ">> \o dev \o <<" ">> \o PermText(perms)

\* The list after a rule r was allowed on the entries es, or denied.
KernelAllowed(list, es, r) ==
    LET all == TrimEnd(KernelDefault("devices.list"))
        same(e) == e.type = r.type /\ e.dev = r.dev
    IN  IF ~r.ok THEN list
        ELSE IF r.type = <<"a">> THEN all \o NL
        ELSE IF \E i \in 1..Len(es) : es[i].type = <<"a">> THEN list
        ELSE IF \E i \in 1..Len(es) : same(es[i])
        THEN Unlines([i \in 1..Len(es) |->
                        KernelRuleLine(es[i].type, es[i].dev,
                                       IF same(es[i]) THEN es[i].perms \cup r.perms
                                       ELSE es[i].perms)])
        ELSE Unlines([i \in 1..Len(es) + 1 |->
                        IF i <= Len(es)
                        THEN KernelRuleLine(es[i].type, es[i].dev, es[i].perms)
                        ELSE KernelRuleLine(r.type, r.dev, r.perms)])

KernelDenied(list, es, r) ==
    LET same(e) == e.type = r.type /\ e.dev = r.dev
        left(e) == IF same(e) THEN e.perms \ r.perms ELSE e.perms
    IN  IF ~r.ok THEN list
        ELSE IF r.type = <<"a">> THEN <<>>
        ELSE IF \E i \in 1..Len(es) : es[i].type = <<"a">> THEN list
        ELSE Let(SelectSeq(es, LAMBDA e : left(e) # {}), LAMBDA kept :
                 Unlines([i \in 1..Len(kept) |->
                            KernelRuleLine(kept[i].type, kept[i].dev, left(kept[i]))]))

\* The entries of a devices.list.
KernelEntries(list) ==
    Let(Lines(list), LAMBDA ls : [i \in 1..Len(ls) |-> KernelRule(ls[i])])

\* devices.allow: a rule for all devices restores the full list; while all
\* devices are allowed the list stays; otherwise the rule's permissions are
\* added to the entry of its device, or the rule becomes a new entry.
KernelDevicesAllow(list, rule) ==
    Let(KernelEntries(list), LAMBDA es :
        Let(KernelRule(rule), LAMBDA r : KernelAllowed(list, es, r)))

\* devices.deny: a rule for all devices empties the list; while all devices are
\* allowed the list stays; otherwise the rule's permissions are taken from the
\* entry of its device, which goes when none is left.
KernelDevicesDeny(list, rule) ==
    Let(KernelEntries(list), LAMBDA es :
        Let(KernelRule(rule), LAMBDA r : KernelDenied(list, es, r)))

\* net_prio.ifpriomap after a write that the kernel took: the line of the
\* interface shows the new priority, the other lines stay.
KernelIfPrioLines(ls, r) ==
    [i \in 1..Len(ls) |->
        IF SplitOn(ls[i], {" "})[1] = r.name THEN r.name \o <<" ">> \o U64ToString(r.prio)
        ELSE ls[i]]
KernelSetIfPrio(map, text) ==
    Let(KernelIfPrio(text), LAMBDA r : Unlines(KernelIfPrioLines(Lines(map), r)))

\* A write that the kernel would store over the old content piece by piece, so that
\* a reader could find the start of the old content before the new one.
KernelWriteTorn(files, f, text, adjust) ==
    [files EXCEPT ![f] = SubSeq(@, 1, 1) \o KernelContent(f, text, adjust).text]

\* The files of a directory after a write of text to file f that the kernel took.
KernelWrite(files, f, text, adjust) ==
    CASE f = "devices.allow" ->
           Let(KernelDevicesAllow(files["devices.list"], TrimEnd(text)), LAMBDA list :
               [files EXCEPT !["devices.list"] = list])
      [] f = "devices.deny" ->
           Let(KernelDevicesDeny(files["devices.list"], TrimEnd(text)), LAMBDA list :
               [files EXCEPT !["devices.list"] = list])
      [] f = "net_prio.ifpriomap" ->
           Let(KernelSetIfPrio(files[f], TrimEnd(text)), LAMBDA map :
               [files EXCEPT ![f] = map])
      [] OTHER -> [files EXCEPT ![f] = KernelContent(f, text, adjust).text]

(***************************************************************************)
(* File I/O.  A world is everything a call can change: the kernel files of *)
(* the group and of the root group, the controllers whose group directory  *)
(* exists, the files outside the hierarchy, and the system calls made.     *)
(* fault is the file that the kernel refuses or adjusts during the call.   *)
(***************************************************************************)
Unit == <<>>
Ok(v) == [ok |-> TRUE, err |-> "None", v |-> v]
Err(kind) == [ok |-> FALSE, err |-> kind, v |-> Unit]

NoFault == [file |-> "none", kind |-> "none"]

\* The name of the group that the model's kernel holds, and of its one descendant.
GroupName == <<"g">>
ChildName == <<"g", "sub">>

\* The processes that exist, and a pid that no process has.
ProcessIds == {7, 42}
NoProcess == 99

\* Where a controller's path leads: to the group, to its descendant, to the root
\* group, to a directory of the controller's hierarchy that does not exist, or
\* out of it.
Scope(ct) ==
    LET r == Resolve(ct.path)
    IN  IF r = ct.base \o GroupName THEN "group"
        ELSE IF r = ct.base \o ChildName THEN "child"
        ELSE IF r = ct.base THEN "root"
        ELSE IF StartsWith(r, ct.base) THEN "inside"
        ELSE "outside"

\* The files of a group's directory: the controller's own and the task list.
GroupFiles(c) == KernelFiles(c) \cup {"tasks"}

\* The pids the kernel lists in the tasks file of a group: those attached to the
\* group in the order of their attachment, the others in the root group.
KernelTasks(w, c, scope) ==
    IF scope = "group" THEN w.tasks[c]
    ELSE LET inroot == {p \in ProcessIds : \A k \in 1..Len(w.tasks[c]) : w.tasks[c][k] # p}
             RECURSIVE Down(_)
             Down(S) == IF S = {} THEN <<>>
                        ELSE LET m == CHOOSE x \in S : \A y \in S : y <= x
                             IN  <<m>> \o Down(S \ {m})
         IN  Down(inroot)

RECURSIVE TasksText(_, _)
\* The tasks file's text: one pid per line.
TasksText(pids, i) ==
    IF i > Len(pids) THEN <<>> ELSE U64ToString(pids[i]) \o NL \o TasksText(pids, i + 1)

\* A write of text to the tasks file of a group: the kernel moves the process
\* into the group, or refuses when the text names no process (ESRCH, EINVAL).
KernelAttach(tasks, c, scope, text) ==
    LET p == ParseU64(TrimEnd(text))
        there == \E k \in 1..Len(tasks[c]) : tasks[c][k] = p.n
    IN  IF ~p.ok \/ p.n \notin ProcessIds THEN [ok |-> FALSE, tasks |-> tasks]
        ELSE IF scope = "group"
        THEN [ok |-> TRUE,
              tasks |-> IF there THEN tasks ELSE [tasks EXCEPT ![c] = Append(@, p.n)]]
        ELSE [ok |-> TRUE,
              tasks |-> [tasks EXCEPT ![c] = SelectSeq(@, LAMBDA q : q # p.n)]]

\* File::create(&self.path) when wr, File::open(&self.path) otherwise, after the
\* file name was pushed onto the path.  ret.v is the open file.
OpenFile(w, ct, p, wr) ==
    LET sc == Scope(ct)
        at == Resolve(PathPush(ct.path, <<p>>))
        ok == CASE sc = "group" -> ct.tag \in w.kdir /\ p \in GroupFiles(ct.tag)
                [] sc = "root" -> p \in GroupFiles(ct.tag) \cup RootFiles(ct.tag)
                [] sc \in {"inside", "child"} -> FALSE
                [] OTHER -> IF wr THEN Resolve(ct.path) \in w.host ELSE at \in w.host
        call == [op |-> IF wr THEN "create" ELSE "open", c |-> ct.tag, f |-> p,
                 at |-> at, ok |-> ok, text |-> <<>>]
    IN  [w |-> [w EXCEPT !.trace = Append(@, call),
                         !.host = IF sc = "outside" /\ wr /\ ok THEN @ \cup {at} ELSE @],
         ret |-> IF ok THEN Ok([scope |-> sc, c |-> ct.tag, f |-> p])
                 ELSE Err(IF wr THEN "WriteFailed" ELSE "ReadFailed")]

\* open_path without its containment check.
open_path_unchecked(w, ct, p, wr) == OpenFile(w, ct, p, wr)

\* ControllerInternal::open_path: the containment check, then the open.
open_path(w, ct, p, wr) ==
    IF ~verify_path(ct) THEN [w |-> w, ret |-> Err("InvalidPath")]
    ELSE OpenFile(w, ct, p, wr)

\* File::write_all on a file open_path returned.
write_all(w, file, text) ==
    LET n == Len(w.trace)
        refused == (w.fault.file = file.f /\ w.fault.kind = "reject")
                   \/ ~KernelContent(file.f, text, FALSE).ok
        adjust == w.fault.file = file.f /\ w.fault.kind = "adjust"
    IN  IF file.scope = "outside"
        THEN [w |-> [w EXCEPT !.trace[n].text = text], ret |-> Ok(Unit)]
        ELSE IF file.f = "tasks"
        THEN Let(KernelAttach(w.tasks, file.c, file.scope, text), LAMBDA k :
                 [w |-> [w EXCEPT !.trace[n].text = text, !.trace[n].ok = k.ok,
                                  !.tasks = k.tasks],
                  ret |-> IF k.ok THEN Ok(Unit) ELSE Err("WriteFailed")])
        ELSE IF refused
        THEN [w |-> [w EXCEPT !.trace[n].text = text, !.trace[n].ok = FALSE],
              ret |-> Err("WriteFailed")]
        ELSE [w |-> [w EXCEPT !.trace[n].text = text,
                              !.kfile[file.scope] = KernelWrite(@, file.f, text, adjust)],
              ret |-> Ok(Unit)]

\* File::read_to_string on a file open_path returned.
read_to_string(w, file) ==
    LET n == Len(w.trace)
        text == IF file.scope = "outside" THEN <<>>
                ELSE IF file.f = "tasks"
                THEN TasksText(KernelTasks(w, file.c, file.scope), 1)
                ELSE w.kfile[file.scope][file.f]
    IN  [w |-> [w EXCEPT !.trace[n].text = text], ret |-> Ok(text)]

\* open_path(p, true).and_then(|file| file.write_all(text).map_err(WriteFailed))
write_file(w, ct, p, text) ==
    Let(open_path(w, ct, p, TRUE), LAMBDA o :
        IF o.ret.ok THEN write_all(o.w, o.ret.v, text) ELSE o)

\* read_u64_from: the trimmed content parsed as a u64.
read_u64_from(w, file) ==
    Let(read_to_string(w, file), LAMBDA r :
    Let(ParseU64(Trim(r.ret.v)), LAMBDA p :
        [w |-> r.w, ret |-> IF p.ok THEN Ok(p.n) ELSE Err("ParseError")]))

\* open_path(p, false).and_then(read_u64_from)
read_u64_file(w, ct, p) ==
    Let(open_path(w, ct, p, FALSE), LAMBDA o :
        IF o.ret.ok THEN read_u64_from(o.w, o.ret.v) ELSE o)

(***************************************************************************)
(* The setters and getters of the controllers.  Each takes the world and   *)
(* the controller and returns the world after the call and its result.     *)
(***************************************************************************)
\* pid::PidMax
PidMax_Max == [max |-> TRUE, n |-> 0]
PidMax_Value(n) == [max |-> FALSE, n |-> n]

\* PidController::set_pid_max
set_pid_max(w, ct, max_pid) ==
    write_file(w, ct, "pids.max",
               IF max_pid.max THEN MaxText ELSE I64ToString(max_pid.n))

\* PidController::get_pid_max
get_pid_max(w, ct) ==
    Let(open_path(w, ct, "pids.max", FALSE), LAMBDA o :
        IF ~o.ret.ok THEN o
        ELSE Let(read_to_string(o.w, o.ret.v), LAMBDA r :
             Let(ParseI64(Trim(r.ret.v)), LAMBDA p :
                 [w |-> r.w,
                  ret |-> IF Trim(r.ret.v) = MaxText THEN Ok(PidMax_Max)
                          ELSE IF p.ok THEN Ok(PidMax_Value(p.n))
                          ELSE Err("ParseError")])))

\* A set_shares that adds the shares to those the file holds.
set_shares_added(w, ct, shares) ==
    write_file(w, ct, "cpu.shares",
               U64ToString(shares + ParseU64(Trim(w.kfile["group"]["cpu.shares"])).n))
\* CpuController::set_shares, shares (a V1 hierarchy: cpu.shares)
set_shares(w, ct, shares) == write_file(w, ct, "cpu.shares", U64ToString(shares))
shares(w, ct) == read_u64_file(w, ct, "cpu.shares")

\* CpuController::set_cfs_period, cfs_period
set_cfs_period(w, ct, us) == write_file(w, ct, "cpu.cfs_period_us", U64ToString(us))
cfs_period(w, ct) == read_u64_file(w, ct, "cpu.cfs_period_us")

\* A set_cfs_quota that writes the quota as the signed number it was given as;
\* then CpuController::set_cfs_quota, cfs_quota
set_cfs_quota_signed(w, ct, us) == write_file(w, ct, "cpu.cfs_quota_us", I64ToString(us))
set_cfs_quota(w, ct, us) == write_file(w, ct, "cpu.cfs_quota_us", U64ToString(us))
cfs_quota(w, ct) == read_u64_file(w, ct, "cpu.cfs_quota_us")

\* NetClsController::set_class, get_class
set_class(w, ct, class) == write_file(w, ct, "net_cls.classid", FormatHex08(class))
get_class(w, ct) == read_u64_file(w, ct, "net_cls.classid")

\* MemController::set_limit and its five siblings
set_limit(w, ct, limit) == write_file(w, ct, "memory.limit_in_bytes", U64ToString(limit))
set_soft_limit(w, ct, limit) ==
    write_file(w, ct, "memory.soft_limit_in_bytes", U64ToString(limit))
set_kmem_limit(w, ct, limit) ==
    write_file(w, ct, "memory.kmem.limit_in_bytes", U64ToString(limit))
set_memswap_limit(w, ct, limit) ==
    write_file(w, ct, "memory.memsw.limit_in_bytes", U64ToString(limit))
set_tcp_limit(w, ct, limit) ==
    write_file(w, ct, "memory.kmem.tcp.limit_in_bytes", U64ToString(limit))
set_swappiness(w, ct, swp) == write_file(w, ct, "memory.swappiness", U64ToString(swp))

\* CpuSetController::set_cpus, set_mems
set_cpus(w, ct, cpus) == write_file(w, ct, "cpuset.cpus", cpus)
set_mems(w, ct, mems) == write_file(w, ct, "cpuset.mems", mems)

\* DeviceType::to_char, DevicePermissions::to_char
DeviceType_to_char(t) == CASE t = "All" -> "a" [] t = "Char" -> "c" [] t = "Block" -> "b"
DevicePermissions_to_char(x) ==
    CASE x = "Read" -> "r" [] x = "Write" -> "w" [] x = "MkNod" -> "m"

\* The rule text of allow_device and deny_device: -1 is written as "*".
DeviceRuleText(devtype, major, minor, perm) ==
    LET perms == [i \in 1..Len(perm) |-> DevicePermissions_to_char(perm[i])]
        mi == IF minor = -1 THEN <<"*">> ELSE I64ToString(minor)
        ma == IF major = -1 THEN <<"*">> ELSE I64ToString(major)
    IN  <<DeviceType_to_char(devtype), " ">> \o ma \o <<":">> \o mi \o <<" ">> \o perms

\* DevicesController::allow_device, deny_device
allow_device(w, ct, devtype, major, minor, perm) ==
    write_file(w, ct, "devices.allow", DeviceRuleText(devtype, major, minor, perm))
deny_device(w, ct, devtype, major, minor, perm) ==
    write_file(w, ct, "devices.deny", DeviceRuleText(devtype, major, minor, perm))

\* format!("{}:{} {}", major, minor, value)
DeviceValueText(major, minor, value) ==
    U64ToString(major) \o <<":">> \o U64ToString(minor) \o <<" ">> \o U64ToString(value)

\* BlkIoController::set_weight writes blkio.leaf_weight, as set_leaf_weight does.
set_weight(w, ct, wt) == write_file(w, ct, "blkio.leaf_weight", U64ToString(wt))
set_leaf_weight(w, ct, wt) == write_file(w, ct, "blkio.leaf_weight", U64ToString(wt))
set_weight_for_device(w, ct, d) == write_file(w, ct, "blkio.weight_device", d)
throttle_read_bps_for_device(w, ct, major, minor, bps) ==
    write_file(w, ct, "blkio.throttle.read_bps_device", DeviceValueText(major, minor, bps))
throttle_write_bps_for_device(w, ct, major, minor, bps) ==
    write_file(w, ct, "blkio.throttle.write_bps_device", DeviceValueText(major, minor, bps))
throttle_read_iops_for_device(w, ct, major, minor, iops) ==
    write_file(w, ct, "blkio.throttle.read_iops_device", DeviceValueText(major, minor, iops))
throttle_write_iops_for_device(w, ct, major, minor, iops) ==
    write_file(w, ct, "blkio.throttle.write_iops_device",
               DeviceValueText(major, minor, iops))

\* BlkIoController::blkio().weight and .leaf_weight: a failed read degrades to 0.
blkio_weight(w, ct) ==
    Let(read_u64_file(w, ct, "blkio.weight"), LAMBDA r :
        [w |-> r.w, ret |-> IF r.ret.ok THEN r.ret ELSE Ok(0)])
blkio_leaf_weight(w, ct) ==
    Let(read_u64_file(w, ct, "blkio.leaf_weight"), LAMBDA r :
        [w |-> r.w, ret |-> IF r.ret.ok THEN r.ret ELSE Ok(0)])

\* NetPrioController::set_if_prio
set_if_prio(w, ct, eif, prio) ==
    write_file(w, ct, "net_prio.ifpriomap", eif \o <<" ">> \o U64ToString(prio))

\* HugeTlbController::set_limit_in_bytes, limit_in_bytes
set_limit_in_bytes(w, ct, size, limit) == write_file(w, ct, HugeFile(size), U64ToString(limit))
limit_in_bytes(w, ct, size) == read_u64_file(w, ct, HugeFile(size))

(***************************************************************************)
(* Controller::apply of each subsystem.  `let _ = ...` discards the result *)
(* of a setter and keeps the world it leaves; `?` returns the error.       *)
(***************************************************************************)
\* PidController::apply without the test of update_values.
PidApplyUnguarded(w, ct, res) ==
    Let(set_pid_max(w, ct, res.pid.maximum_number_of_processes), LAMBDA s :
    Let(get_pid_max(s.w, ct), LAMBDA g :
        IF ~g.ret.ok THEN g
        ELSE [w |-> g.w,
              ret |-> IF g.ret.v = res.pid.maximum_number_of_processes
                      THEN Ok(Unit) ELSE Err("Other")]))

\* PidController::apply
PidApply(w, ct, res) ==
    IF ~res.pid.update_values THEN [w |-> w, ret |-> Ok(Unit)]
    ELSE
      Let(set_pid_max(w, ct, res.pid.maximum_number_of_processes), LAMBDA s :
      Let(get_pid_max(s.w, ct), LAMBDA g :
          IF ~g.ret.ok THEN g
          ELSE [w |-> g.w,
                ret |-> IF g.ret.v = res.pid.maximum_number_of_processes
                        THEN Ok(Unit) ELSE Err("Other")]))

\* MemController::apply
MemApply(w, ct, res) ==
    IF ~res.memory.update_values THEN [w |-> w, ret |-> Ok(Unit)]
    ELSE
      Let(set_limit(w, ct, res.memory.memory_hard_limit), LAMBDA s1 :
      Let(set_soft_limit(s1.w, ct, res.memory.memory_soft_limit), LAMBDA s2 :
      Let(set_kmem_limit(s2.w, ct, res.memory.kernel_memory_limit), LAMBDA s3 :
      Let(set_memswap_limit(s3.w, ct, res.memory.memory_swap_limit), LAMBDA s4 :
      Let(set_tcp_limit(s4.w, ct, res.memory.kernel_tcp_memory_limit), LAMBDA s5 :
      Let(set_swappiness(s5.w, ct, res.memory.swappiness), LAMBDA s6 :
          [w |-> s6.w, ret |-> Ok(Unit)]))))))

\* An apply of the cpuset controller that leaves out the fields that are empty.
CpuSetApplySet(w, ct, res) ==
    IF ~res.cpu.update_values THEN [w |-> w, ret |-> Ok(Unit)]
    ELSE
      Let(IF res.cpu.cpus = <<>> THEN [w |-> w, ret |-> Ok(Unit)]
          ELSE set_cpus(w, ct, res.cpu.cpus), LAMBDA s1 :
      Let(IF res.cpu.mems = <<>> THEN s1 ELSE set_mems(s1.w, ct, res.cpu.mems),
          LAMBDA s2 : [w |-> s2.w, ret |-> Ok(Unit)]))

\* CpuSetController::apply
CpuSetApply(w, ct, res) ==
    IF ~res.cpu.update_values THEN [w |-> w, ret |-> Ok(Unit)]
    ELSE
      Let(set_cpus(w, ct, res.cpu.cpus), LAMBDA s1 :
      Let(set_mems(s1.w, ct, res.cpu.mems), LAMBDA s2 :
          [w |-> s2.w, ret |-> Ok(Unit)]))

\* CpuController::apply, from the write of the quota on
CpuApplyQuota(w, ct, res) ==
    Let(set_cfs_quota(w, ct, res.cpu.quota), LAMBDA s :
    Let(cfs_quota(s.w, ct), LAMBDA g :
        IF ~g.ret.ok THEN g
        ELSE IF g.ret.v # res.cpu.quota THEN [w |-> g.w, ret |-> Err("Other")]
        ELSE [w |-> g.w, ret |-> Ok(Unit)]))

\* CpuController::apply, from the write of the period on
CpuApplyPeriod(w, ct, res) ==
    Let(set_cfs_period(w, ct, res.cpu.period), LAMBDA s :
    Let(cfs_period(s.w, ct), LAMBDA g :
        IF ~g.ret.ok THEN g
        ELSE IF g.ret.v # res.cpu.period THEN [w |-> g.w, ret |-> Err("Other")]
        ELSE CpuApplyQuota(g.w, ct, res)))

\* CpuController::apply
CpuApply(w, ct, res) ==
    IF ~res.cpu.update_values THEN [w |-> w, ret |-> Ok(Unit)]
    ELSE
      Let(set_shares(w, ct, res.cpu.shares), LAMBDA s :
      Let(shares(s.w, ct), LAMBDA g :
          IF ~g.ret.ok THEN g
          ELSE IF g.ret.v # res.cpu.shares THEN [w |-> g.w, ret |-> Err("Other")]
          ELSE CpuApplyPeriod(g.w, ct, res)))

RECURSIVE DevicesLoop(_, _, _, _)
\* for i in &res.devices { let _ = self.allow_device(..) or self.deny_device(..) }
DevicesLoop(w, ct, devs, i) ==
    IF i > Len(devs) THEN [w |-> w, ret |-> Ok(Unit)]
    ELSE Let(IF devs[i].allow
             THEN allow_device(w, ct, devs[i].devtype, devs[i].major, devs[i].minor,
                               devs[i].access)
             ELSE deny_device(w, ct, devs[i].devtype, devs[i].major, devs[i].minor,
                              devs[i].access),
             LAMBDA s : DevicesLoop(s.w, ct, devs, i + 1))

\* DevicesController::apply
DevicesApply(w, ct, res) ==
    IF res.devices.update_values THEN DevicesLoop(w, ct, res.devices.devices, 1)
    ELSE [w |-> w, ret |-> Ok(Unit)]

\* NetClsController::apply
NetClsApply(w, ct, res) ==
    IF ~res.network.update_values THEN [w |-> w, ret |-> Ok(Unit)]
    ELSE
      Let(set_class(w, ct, res.network.class_id), LAMBDA s :
      Let(get_class(s.w, ct), LAMBDA g :
          [w |-> g.w,
           ret |-> IF g.ret.ok /\ g.ret.v = res.network.class_id
                   THEN Ok(Unit) ELSE Err("Other")]))

RECURSIVE WeightDeviceLoop(_, _, _, _)
\* for dev in &res.weight_device { let _ = self.set_weight_for_device(..) }
WeightDeviceLoop(w, ct, devs, i) ==
    IF i > Len(devs) THEN [w |-> w, ret |-> Ok(Unit)]
    ELSE Let(set_weight_for_device(w, ct,
                 DeviceValueText(devs[i].major, devs[i].minor, devs[i].weight)),
             LAMBDA s : WeightDeviceLoop(s.w, ct, devs, i + 1))

RECURSIVE ThrottleLoop(_, _, _, _, _)
\* The four loops over the throttle lists of BlkIoController::apply.
ThrottleLoop(w, ct, kind, devs, i) ==
    IF i > Len(devs) THEN [w |-> w, ret |-> Ok(Unit)]
    ELSE Let(CASE kind = "read_bps" ->
                    throttle_read_bps_for_device(w, ct, devs[i].major, devs[i].minor,
                                                 devs[i].rate)
               [] kind = "write_bps" ->
                    throttle_write_bps_for_device(w, ct, devs[i].major, devs[i].minor,
                                                  devs[i].rate)
               [] kind = "read_iops" ->
                    throttle_read_iops_for_device(w, ct, devs[i].major, devs[i].minor,
                                                  devs[i].rate)
               [] kind = "write_iops" ->
                    throttle_write_iops_for_device(w, ct, devs[i].major, devs[i].minor,
                                                   devs[i].rate),
             LAMBDA s : ThrottleLoop(s.w, ct, kind, devs, i + 1))

\* BlkIoController::apply
BlkIoApply(w, ct, res) ==
    IF ~res.blkio.update_values THEN [w |-> w, ret |-> Ok(Unit)]
    ELSE
      Let(set_weight(w, ct, res.blkio.weight), LAMBDA s1 :
      Let(set_leaf_weight(s1.w, ct, res.blkio.leaf_weight), LAMBDA s2 :
      Let(WeightDeviceLoop(s2.w, ct, res.blkio.weight_device, 1), LAMBDA s3 :
      Let(ThrottleLoop(s3.w, ct, "read_bps", res.blkio.throttle_read_bps_device, 1),
          LAMBDA s4 :
      Let(ThrottleLoop(s4.w, ct, "write_bps", res.blkio.throttle_write_bps_device, 1),
          LAMBDA s5 :
      Let(ThrottleLoop(s5.w, ct, "read_iops", res.blkio.throttle_read_iops_device, 1),
          LAMBDA s6 :
      Let(ThrottleLoop(s6.w, ct, "write_iops", res.blkio.throttle_write_iops_device, 1),
          LAMBDA s7 : [w |-> s7.w, ret |-> Ok(Unit)])))))))

RECURSIVE NetPrioLoop(_, _, _, _)
\* for i in &res.priorities { let _ = self.set_if_prio(&i.name, i.priority) }
NetPrioLoop(w, ct, prios, i) ==
    IF i > Len(prios) THEN [w |-> w, ret |-> Ok(Unit)]
    ELSE Let(set_if_prio(w, ct, prios[i].name, prios[i].priority),
             LAMBDA s : NetPrioLoop(s.w, ct, prios, i + 1))

\* NetPrioController::apply
NetPrioApply(w, ct, res) ==
    IF res.network.update_values THEN NetPrioLoop(w, ct, res.network.priorities, 1)
    ELSE [w |-> w, ret |-> Ok(Unit)]

RECURSIVE HugeTlbLoop(_, _, _, _)
\* for i in &res.limits { let _ = set_limit_in_bytes; if limit_in_bytes? != limit
\* { return Err } }
HugeTlbLoop(w, ct, limits, i) ==
    IF i > Len(limits) THEN [w |-> w, ret |-> Ok(Unit)]
    ELSE Let(set_limit_in_bytes(w, ct, limits[i].size, limits[i].limit), LAMBDA s :
         Let(limit_in_bytes(s.w, ct, limits[i].size), LAMBDA g :
             IF ~g.ret.ok THEN g
             ELSE IF g.ret.v # limits[i].limit THEN [w |-> g.w, ret |-> Err("Other")]
             ELSE HugeTlbLoop(g.w, ct, limits, i + 1)))

RECURSIVE HugeTlbWriteLoop(_, _, _, _)
HugeTlbWriteLoop(w, ct, limits, i) ==
    IF i > Len(limits) THEN [w |-> w, ret |-> Ok(Unit)]
    ELSE Let(set_limit_in_bytes(w, ct, limits[i].size, limits[i].limit),
             LAMBDA s : HugeTlbWriteLoop(s.w, ct, limits, i + 1))

\* HugeTlbController::apply as a loop of writes that reads nothing back.
HugeTlbApplyUnverified(w, ct, res) ==
    IF res.hugepages.update_values THEN HugeTlbWriteLoop(w, ct, res.hugepages.limits, 1)
    ELSE [w |-> w, ret |-> Ok(Unit)]

\* HugeTlbController::apply
HugeTlbApply(w, ct, res) ==
    IF res.hugepages.update_values THEN HugeTlbLoop(w, ct, res.hugepages.limits, 1)
    ELSE [w |-> w, ret |-> Ok(Unit)]

\* The apply of cpuacct, freezer, perf_event and rdma: nothing to do.
NoApply(w, ct, res) == [w |-> w, ret |-> Ok(Unit)]

\* Subsystem::to_controller().apply(res): the apply of the variant's controller.
ControllerApply(w, ct, res) ==
    CASE ct.tag = "pids"     -> PidApply(w, ct, res)
      [] ct.tag = "memory"   -> MemApply(w, ct, res)
      [] ct.tag = "cpuset"   -> CpuSetApply(w, ct, res)
      [] ct.tag = "cpu"      -> CpuApply(w, ct, res)
      [] ct.tag = "devices"  -> DevicesApply(w, ct, res)
      [] ct.tag = "net_cls"  -> NetClsApply(w, ct, res)
      [] ct.tag = "blkio"    -> BlkIoApply(w, ct, res)
      [] ct.tag = "net_prio" -> NetPrioApply(w, ct, res)
      [] ct.tag = "hugetlb"  -> HugeTlbApply(w, ct, res)
      [] OTHER               -> NoApply(w, ct, res)

RECURSIVE ApplyFold(_, _, _, _, _)
\* try_fold((), |_, e| e.to_controller().apply(res)): the first error ends the fold.
\* done collects the result of each subsystem that was asked to apply.
ApplyFold(w, subs, res, i, done) ==
    IF i > Len(subs) THEN [w |-> w, ret |-> Ok(Unit), done |-> done]
    ELSE Let(ControllerApply(w, subs[i], res), LAMBDA r :
         Let(Append(done, [c |-> subs[i].tag, ret |-> r.ret]), LAMBDA d :
             IF r.ret.ok THEN ApplyFold(r.w, subs, res, i + 1, d)
             ELSE [w |-> r.w, ret |-> r.ret, done |-> d]))

RECURSIVE ApplyEach(_, _, _, _, _, _)
ApplyEach(w, subs, res, i, done, first) ==
    IF i > Len(subs) THEN [w |-> w, ret |-> first, done |-> done]
    ELSE Let(ControllerApply(w, subs[i], res), LAMBDA r :
             ApplyEach(r.w, subs, res, i + 1,
                       Append(done, [c |-> subs[i].tag, ret |-> r.ret]),
                       IF first.ok THEN r.ret ELSE first))

\* Cgroup::apply as a loop that asks every subsystem and keeps the first error.
Cgroup_apply_each(w, subs, res) == ApplyEach(w, subs, res, 1, <<>>, Ok(Unit))

\* Cgroup::apply
Cgroup_apply(w, subs, res) == ApplyFold(w, subs, res, 1, <<>>)

(***************************************************************************)
(* Directories: Controller::create, exists and delete, and the Cgroup      *)
(* operations built from them.                                             *)
(***************************************************************************)
\* A directory call as the trace records it.
DirCall(op, ct, ok) ==
    [op |-> op, c |-> ct.tag, f |-> ".", at |-> Resolve(ct.path), ok |-> ok, text |-> <<>>]

\* Whether the directory at the controller's path exists.
DirExists(w, ct) ==
    LET sc == Scope(ct)
    IN  CASE sc = "group" -> ct.tag \in w.kdir
          [] sc = "child" -> ct.tag \in w.child
          [] sc = "root" -> TRUE
          [] sc = "inside" -> FALSE
          [] OTHER -> Resolve(ct.path) \in w.host

\* Whether the host directory has an entry below it.
HostHasEntries(w, dir) == \E e \in w.host : e # dir /\ StartsWith(e, dir)

\* A create that takes the error of create_dir on an existing directory as fatal.
Controller_create_strict(w, ct) ==
    IF ~verify_path(ct) \/ DirExists(w, ct) THEN [w |-> w, ret |-> Err("Panic")]
    ELSE
      LET sc == Scope(ct)
          at == Resolve(ct.path)
          ok == CASE sc = "child" -> ct.tag \in w.kdir
                  [] sc = "outside" -> SubSeq(at, 1, Len(at) - 1) \in w.host
                  [] OTHER -> sc = "group"
      IN  [w |-> [w EXCEPT !.trace = Append(@, DirCall("mkdir", ct, ok)),
                           !.kdir = IF ok /\ sc = "group" THEN @ \cup {ct.tag} ELSE @,
                           !.child = IF ok /\ sc = "child" THEN @ \cup {ct.tag} ELSE @,
                           !.host = IF ok /\ sc = "outside" THEN @ \cup {at} ELSE @],
           ret |-> Ok(Unit)]

\* Controller::create: the path must verify (or the call panics), then create_dir,
\* whose error is only logged.
Controller_create(w, ct) ==
    IF ~verify_path(ct) THEN [w |-> w, ret |-> Err("Panic")]
    ELSE
      LET sc == Scope(ct)
          at == Resolve(ct.path)
          ok == CASE sc = "group" -> ct.tag \notin w.kdir
                  [] sc = "child" -> ct.tag \in w.kdir /\ ct.tag \notin w.child
                  [] sc = "outside" ->
                       at \notin w.host /\ SubSeq(at, 1, Len(at) - 1) \in w.host
                  [] OTHER -> FALSE
      IN  [w |-> [w EXCEPT !.trace = Append(@, DirCall("mkdir", ct, ok)),
                           !.kdir = IF ok /\ sc = "group" THEN @ \cup {ct.tag} ELSE @,
                           !.child = IF ok /\ sc = "child" THEN @ \cup {ct.tag} ELSE @,
                           !.host = IF ok /\ sc = "outside" THEN @ \cup {at} ELSE @],
           ret |-> Ok(Unit)]

\* Controller::exists
Controller_exists(w, ct) ==
    [w |-> [w EXCEPT !.trace = Append(@, DirCall("stat", ct, DirExists(w, ct)))],
     ret |-> Ok(DirExists(w, ct))]

\* Controller::delete: remove_dir if the path exists, its result discarded.  The
\* kernel removes a group directory with its files, unless tasks are attached to
\* the group or it has a descendant (EBUSY); a later mkdir brings the files back
\* with their defaults.
Controller_delete(w, ct) ==
    LET sc == Scope(ct)
        at == Resolve(ct.path)
        ok == CASE sc = "group" -> w.tasks[ct.tag] = <<>> /\ ct.tag \notin w.child
                [] sc = "child" -> TRUE
                [] sc = "outside" -> ~HostHasEntries(w, at)
                [] OTHER -> FALSE
    IN  Let(Controller_exists(w, ct), LAMBDA e :
        IF ~e.ret.v THEN [w |-> e.w, ret |-> Ok(Unit)]
        ELSE [w |-> [e.w EXCEPT
                       !.trace = Append(@, DirCall("rmdir", ct, ok)),
                       !.kdir = IF ok /\ sc = "group" THEN @ \ {ct.tag} ELSE @,
                       !.child = IF ok /\ sc = "child" THEN @ \ {ct.tag} ELSE @,
                       !.kfile["group"] =
                           IF ok /\ sc = "group"
                           THEN [f \in AllKernelFiles |->
                                   IF f \in KernelFiles(ct.tag) THEN KernelDefault(f)
                                   ELSE @[f]]
                           ELSE @,
                       !.host = IF ok /\ sc = "outside" THEN @ \ {at} ELSE @],
              ret |-> Ok(Unit)])

RECURSIVE CreateLoop(_, _, _)
\* Cgroup::create: every subsystem's create, in order; a panic ends the loop.
CreateLoop(w, subs, i) ==
    IF i > Len(subs) THEN [w |-> w, ret |-> Ok(Unit)]
    ELSE Let(Controller_create(w, subs[i]), LAMBDA r :
             IF r.ret.ok THEN CreateLoop(r.w, subs, i + 1) ELSE r)

Cgroup_create(w, subs) == CreateLoop(w, subs, 1)

\* Cgroup::new: load, then create; the handle is returned unless create panicked.
Cgroup_new(w, sup, name) ==
    Let(load(sup, name), LAMBDA subs :
    Let(Cgroup_create(w, subs), LAMBDA r :
        [w |-> r.w, ret |-> IF r.ret.ok THEN Ok(subs) ELSE r.ret]))

RECURSIVE DeleteLoop(_, _, _)
\* Cgroup::delete: for_each over the subsystems, each one's delete.
DeleteLoop(w, subs, i) ==
    IF i > Len(subs) THEN [w |-> w, ret |-> Ok(Unit)]
    ELSE Let(Controller_delete(w, subs[i]), LAMBDA r : DeleteLoop(r.w, subs, i + 1))

\* Deletes only the first subsystem's directory.
Cgroup_delete_first(w, subs) ==
    IF subs = <<>> THEN [w |-> w, ret |-> Ok(Unit)] ELSE Controller_delete(w, subs[1])

Cgroup_delete(w, subs) == DeleteLoop(w, subs, 1)

\* CgroupBuilder::build: Cgroup::new, then apply whose result is dropped.
CgroupBuilder_build(w, sup, name, res) ==
    Let(Cgroup_new(w, sup, name), LAMBDA n :
        IF ~n.ret.ok THEN [w |-> n.w, ret |-> n.ret, done |-> <<>>]
        ELSE Let(Cgroup_apply(n.w, n.ret.v, res), LAMBDA a :
                 [w |-> a.w, ret |-> n.ret, done |-> a.done]))

(***************************************************************************)
(* Resources: the values a caller hands to apply.                          *)
(***************************************************************************)
\* The longest list of a section in the explored inputs.
MaxList == 2

Sections == {"memory", "pid", "cpu", "devices", "network", "hugepages", "blkio"}

\* The controllers whose apply reads the section.
SectionControllers(s) ==
    CASE s = "memory"    -> {"memory"}
      [] s = "pid"       -> {"pids"}
      [] s = "cpu"       -> {"cpuset", "cpu"}
      [] s = "devices"   -> {"devices"}
      [] s = "network"   -> {"net_cls", "net_prio"}
      [] s = "hugepages" -> {"hugetlb"}
      [] s = "blkio"     -> {"blkio"}

\* The section that a controller's apply reads, "none" for the four without one.
SectionOf(c) ==
    IF \E s \in Sections : c \in SectionControllers(s)
    THEN CHOOSE s \in Sections : c \in SectionControllers(s)
    ELSE "none"

\* Resources::default(): every flag unset, numbers 0, lists and strings empty,
\* PidMax::default() = Max.
DefaultResources ==
    [memory    |-> [update_values |-> FALSE, kernel_memory_limit |-> 0,
                    memory_hard_limit |-> 0, memory_soft_limit |-> 0,
                    kernel_tcp_memory_limit |-> 0, memory_swap_limit |-> 0,
                    swappiness |-> 0],
     pid       |-> [update_values |-> FALSE, maximum_number_of_processes |-> PidMax_Max],
     cpu       |-> [update_values |-> FALSE, cpus |-> <<>>, mems |-> <<>>, shares |-> 0,
                    quota |-> 0, period |-> 0],
     devices   |-> [update_values |-> FALSE, devices |-> <<>>],
     network   |-> [update_values |-> FALSE, class_id |-> 0, priorities |-> <<>>],
     hugepages |-> [update_values |-> FALSE, limits |-> <<>>],
     blkio     |-> [update_values |-> FALSE, weight |-> 0, leaf_weight |-> 0,
                    weight_device |-> <<>>, throttle_read_bps_device |-> <<>>,
                    throttle_read_iops_device |-> <<>>,
                    throttle_write_bps_device |-> <<>>,
                    throttle_write_iops_device |-> <<>>]]

\* The first at most MaxList entries of a list.
Bounded(list) == SubSeq(list, 1, IF Len(list) < MaxList THEN Len(list) ELSE MaxList)

\* A caller's own values for every field.
CustomResources ==
    [memory    |-> [update_values |-> FALSE, kernel_memory_limit |-> 1024,
                    memory_hard_limit |-> 4096, memory_soft_limit |-> 2048,
                    kernel_tcp_memory_limit |-> 512, memory_swap_limit |-> 8192,
                    swappiness |-> 10],
     pid       |-> [update_values |-> FALSE,
                    maximum_number_of_processes |-> PidMax_Value(1337)],
     cpu       |-> [update_values |-> FALSE, cpus |-> <<"0">>, mems |-> <<"0">>,
                    shares |-> 512, quota |-> 50000, period |-> 200000],
     devices   |-> [update_values |-> FALSE,
                    devices |-> Bounded(<<
                      [allow |-> FALSE, devtype |-> "All", major |-> -1, minor |-> -1,
                       access |-> <<"Read", "Write", "MkNod">>],
                      [allow |-> TRUE, devtype |-> "Char", major |-> 1, minor |-> 3,
                       access |-> <<"Read", "Write">>],
                      [allow |-> TRUE, devtype |-> "Block", major |-> 8, minor |-> -1,
                       access |-> <<"Read">>]>>)],
     network   |-> [update_values |-> FALSE, class_id |-> 1337,
                    priorities |-> Bounded(<<
                      [name |-> <<"l", "o">>, priority |-> 1],
                      [name |-> <<"e", "t", "h", "0">>, priority |-> 2],
                      [name |-> <<"l", "o">>, priority |-> 3]>>)],
     hugepages |-> [update_values |-> FALSE,
                    limits |-> Bounded(<<
                      [size |-> "2MB", limit |-> 4096],
                      [size |-> "1GB", limit |-> 0],
                      [size |-> "2MB", limit |-> 8192]>>)],
     blkio     |-> [update_values |-> FALSE, weight |-> 100, leaf_weight |-> 200,
                    weight_device |-> Bounded(<<
                      [major |-> 8, minor |-> 0, weight |-> 300, leaf_weight |-> 400],
                      [major |-> 8, minor |-> 16, weight |-> 600, leaf_weight |-> 700],
                      [major |-> 9, minor |-> 0, weight |-> 800, leaf_weight |-> 900]>>),
                    throttle_read_bps_device |-> Bounded(<<
                      [major |-> 8, minor |-> 0, rate |-> 1000],
                      [major |-> 8, minor |-> 16, rate |-> 2000],
                      [major |-> 9, minor |-> 0, rate |-> 3000]>>),
                    throttle_read_iops_device |-> Bounded(<<
                      [major |-> 8, minor |-> 0, rate |-> 10]>>),
                    throttle_write_bps_device |-> Bounded(<<
                      [major |-> 8, minor |-> 0, rate |-> 4000]>>),
                    throttle_write_iops_device |-> Bounded(<<
                      [major |-> 8, minor |-> 0, rate |-> 20]>>)]]

\* The values with update_values set in exactly the sections of flags.
WithFlags(values, flags) ==
    [s \in Sections |-> [values[s] EXCEPT !.update_values = s \in flags]]

\* The flag sets explored: no section, every section, each section alone.
FlagSets == {{}, Sections} \cup {{s} : s \in Sections}

ResourcesSet ==
    {WithFlags(v, flags) : v \in {DefaultResources, CustomResources}, flags \in FlagSets}

\* The sections whose flag is set.
FlagsOf(res) == {s \in Sections : res[s].update_values}

\* The files that the apply of a controller writes.
AppliedFiles(c) ==
    CASE c = "devices" -> {"devices.allow", "devices.deny"}
      [] c = "blkio"   -> {"blkio.leaf_weight"} \cup BlkIoDeviceFiles
      [] OTHER         -> KernelFiles(c)

\* What the kernel may do during an apply of res: nothing special, refuse the
\* writes to one of the files the apply writes, or store an adjusted value in one.
Faults(res) ==
    LET files == UNION {AppliedFiles(c) : c \in UNION {SectionControllers(s) : s \in FlagsOf(res)}}
    IN  {NoFault} \cup {[file |-> f, kind |-> "reject"] : f \in files}
                  \cup {[file |-> f, kind |-> "adjust"] : f \in files \cap AdjustingFiles}

\* The controllers that check_support finds on the two systems explored.
SupportedSets == {Controllers, Controllers \ {"net_prio", "hugetlb", "rdma"}}

(***************************************************************************)
(* The state: one Cgroup handle of the program and the file systems.       *)
(***************************************************************************)
VARIABLES
    cg,      \* the handle: whether the program holds one, and its subsystems
    kfile,   \* the kernel: the content of each file of the group and of the root group
    kdir,    \* the kernel: the controllers in which the group's directory exists
    kchild,  \* the kernel: the controllers in which the group has its descendant
    ktasks,  \* the kernel: per controller, the pids attached to the group
    host,    \* the paths outside the hierarchy that exist
    trace,   \* the file system calls of the last operation, in order
    last,    \* the last operation: its name, arguments and results
    kprev,   \* kfile as it was when the last apply or build began
    count,   \* the operations counted against the bounds
    procs    \* the callers that run at the same time: where each one is in its call

vars == <<cg, kfile, kdir, kchild, ktasks, host, trace, last, kprev, count, procs>>

\* The callers that run at the same time, and a caller that is in no call.
Actors == {"A", "B"}
Idle == [pc |-> "idle", i |-> 0, k |-> 0, subs |-> <<>>, res |-> <<>>, ret |-> <<>>]

\* The most applies explored in one behaviour.
MaxApplies == 1

NoHandle == [live |-> FALSE, subsystems |-> <<>>]
Handle(subs) == [live |-> TRUE, subsystems |-> subs]

\* The host's directories the model looks at: /srv is an empty directory.
HostInit == {<<"/">>, <<"/", "sys">>, <<"/", "sys", "fs">>, Root, <<"/", "srv">>}

\* The record of an operation; the fields an operation has no use for keep these.
NoOp == [op |-> "none", res |-> DefaultResources, fault |-> NoFault, ret |-> Ok(Unit),
         done |-> <<>>, arg |-> 0, got |-> Ok(Unit)]

World(fault) ==
    [kfile |-> kfile, kdir |-> kdir, child |-> kchild, tasks |-> ktasks, host |-> host,
     trace |-> <<>>, fault |-> fault]

\* The variables after an operation that left the world w; an apply is counted.
Finish(w, handle, record, counted) ==
    /\ cg' = handle
    /\ kfile' = w.kfile
    /\ kdir' = w.kdir
    /\ kchild' = w.child
    /\ ktasks' = w.tasks
    /\ host' = w.host
    /\ trace' = w.trace
    /\ last' = record
    /\ kprev' = IF counted > 0 THEN kfile ELSE w.kfile
    /\ count' = count + counted
    /\ procs' = procs

\* No handle, no group: only the root groups of the hierarchy exist.
Init ==
    /\ cg = NoHandle
    /\ kfile = [sc \in {"group", "root"} |-> DefaultFiles]
    /\ kdir = {}
    /\ kchild = {}
    /\ ktasks = [c \in Controllers |-> <<>>]
    /\ host = HostInit
    /\ trace = <<>>
    /\ last = NoOp
    /\ kprev = [sc \in {"group", "root"} |-> DefaultFiles]
    /\ count = 0
    /\ procs = [a \in Actors |-> Idle]

\* Cgroup::new(&hier, "g")
New ==
    \E sup \in SupportedSets :
        /\ ~cg.live
        /\ \E r \in {Cgroup_new(World(NoFault), sup, GroupName)} :
               Finish(r.w, Handle(r.ret.v), [NoOp EXCEPT !.op = "new"], 0)

\* cg.apply(&res)
Apply ==
    \E res \in ResourcesSet : \E fault \in Faults(res) :
        /\ cg.live
        /\ count < MaxApplies
        /\ \E r \in {Cgroup_apply(World(fault), cg.subsystems, res)} :
               Finish(r.w, cg,
                      [NoOp EXCEPT !.op = "apply", !.res = res, !.fault = fault,
                                   !.ret = r.ret, !.done = r.done], 1)

\* CgroupBuilder::new("g", &hier). ... .build()
Build ==
    \E sup \in SupportedSets : \E res \in ResourcesSet :
        /\ ~cg.live
        /\ count < MaxApplies
        /\ \E r \in {CgroupBuilder_build(World(NoFault), sup, GroupName, res)} :
               Finish(r.w, Handle(r.ret.v),
                      [NoOp EXCEPT !.op = "build", !.res = res, !.done = r.done], 1)

\* A delete that leaves the handle with the caller.
DeleteKeepsHandle ==
    /\ cg.live
    /\ \E r \in {Cgroup_delete(World(NoFault), cg.subsystems)} :
           Finish(r.w, cg,
                  [NoOp EXCEPT !.op = "delete", !.ret = r.ret, !.arg = cg.subsystems,
                               !.got = Ok([tasks |-> ktasks, child |-> kchild,
                                           dirs |-> kdir])], 0)

\* cg.delete(): the handle is consumed.  arg keeps the subsystems the handle had
\* and got the tasks, descendants and directories before the call.
Delete ==
    /\ cg.live
    /\ \E r \in {Cgroup_delete(World(NoFault), cg.subsystems)} :
           Finish(r.w, NoHandle,
                  [NoOp EXCEPT !.op = "delete", !.ret = r.ret, !.arg = cg.subsystems,
                               !.got = Ok([tasks |-> ktasks, child |-> kchild,
                                           dirs |-> kdir])], 0)

Next == New \/ Apply \/ Build \/ Delete

Spec == Init /\ [][Next]_vars

(***************************************************************************)
(* What the last apply did, read from the state.                           *)
(***************************************************************************)
\* The place of a controller among the handle's subsystems.
Pos(c) == CHOOSE i \in 1..Len(cg.subsystems) : cg.subsystems[i].tag = c

\* The calls of the last operation made for controller c: all, and the writes.
CallsOf(c) == SelectSeq(trace, LAMBDA e : e.c = c)
WritesOf(c) == SelectSeq(trace, LAMBDA e : e.c = c /\ e.op = "create")

\* The subsystems asked to apply by the last operation, and the result of one.
DoneTags == {last.done[i].c : i \in 1..Len(last.done)}
DoneRet(c) == last.done[CHOOSE i \in 1..Len(last.done) : last.done[i].c = c].ret

\* Whether the last operation asked controller c to apply a section whose flag is set.
AppliedFlagged(c) ==
    /\ last.op \in {"apply", "build"}
    /\ c \in DoneTags
    /\ SectionOf(c) \in FlagsOf(last.res)

RECURSIVE Replay(_, _, _, _)
\* The files after the accepted writes of calls i.. of a trace, made in order.
Replay(files, tr, fault, i) ==
    IF i > Len(tr) THEN files
    ELSE Let(IF tr[i].op = "create" /\ tr[i].ok
             THEN KernelWrite(files, tr[i].f, tr[i].text,
                              fault.file = tr[i].f /\ fault.kind = "adjust")
             ELSE files,
             LAMBDA nx : Replay(nx, tr, fault, i + 1))

\* What a file shows when it holds the number n, or the pids.max value m.
NumberContent(n) == U64ToString(n) \o NL
PidMaxContent(m) == (IF m.max THEN MaxText ELSE I64ToString(m.n)) \o NL

\* The content of file f of the group when the kernel holds the value that res
\* requests for it (the files with one value per section).
RequestedContent(res, f) ==
    CASE f = "pids.max" -> PidMaxContent(res.pid.maximum_number_of_processes)
      [] f = "memory.limit_in_bytes" -> NumberContent(res.memory.memory_hard_limit)
      [] f = "memory.soft_limit_in_bytes" -> NumberContent(res.memory.memory_soft_limit)
      [] f = "memory.kmem.limit_in_bytes" -> NumberContent(res.memory.kernel_memory_limit)
      [] f = "memory.memsw.limit_in_bytes" -> NumberContent(res.memory.memory_swap_limit)
      [] f = "memory.kmem.tcp.limit_in_bytes" ->
           NumberContent(res.memory.kernel_tcp_memory_limit)
      [] f = "memory.swappiness" -> NumberContent(res.memory.swappiness)
      [] f = "cpu.shares" -> NumberContent(res.cpu.shares)
      [] f = "cpu.cfs_period_us" -> NumberContent(res.cpu.period)
      [] f = "cpu.cfs_quota_us" -> NumberContent(res.cpu.quota)
      [] f = "net_cls.classid" -> NumberContent(res.network.class_id)

(***************************************************************************)
(* Cgroup::apply across the subsystems.                                    *)
(***************************************************************************)
\* C1: Cgroup::apply asks the subsystems in the handle's order and stops at the
\* first error, which it returns: every subsystem before the failing one returned
\* Ok, no call is made for a subsystem after it, the calls never go back to an
\* earlier subsystem, and the files hold every accepted write (nothing is undone).
C1_FailFast ==
    last.op = "apply" =>
        LET subs == cg.subsystems
            done == last.done
            n == Len(done)
        IN  /\ n <= Len(subs)
            /\ \A i \in 1..n : done[i].c = subs[i].tag
            /\ \A i \in 1..(n - 1) : done[i].ret.ok
            /\ IF last.ret.ok THEN n = Len(subs) /\ \A i \in 1..n : done[i].ret.ok
               ELSE n >= 1 /\ done[n].ret = last.ret
            /\ \A k \in 1..Len(trace) : Pos(trace[k].c) <= n
            /\ \A k \in 1..(Len(trace) - 1) : Pos(trace[k].c) <= Pos(trace[k + 1].c)
            /\ kfile["group"] = Replay(kprev["group"], trace, last.fault, 1)

\* An apply that failed in a subsystem after an earlier subsystem had changed a
\* file, while a later subsystem's section was flagged and had values to write.
C1_Witness ==
    /\ last.op = "apply"
    /\ ~last.ret.ok
    /\ \E k \in 1..Len(trace) :
           /\ trace[k].op = "create" /\ trace[k].ok
           /\ Pos(trace[k].c) < Len(last.done)
           /\ kfile["group"][trace[k].f] # kprev["group"][trace[k].f]
    /\ \E i \in (Len(last.done) + 1)..Len(cg.subsystems) :
           /\ cg.subsystems[i].tag = "blkio"
           /\ last.res.blkio.update_values
           /\ last.res.blkio.weight_device # <<>>

\* C2: for each section whose update_values is false, an apply makes no call at all
\* for the controllers that read the section, their apply returns Ok and their
\* files are as they were before, whatever the other sections hold.
C2_UnflaggedUntouched ==
    last.op \in {"apply", "build"} =>
        \A s \in Sections \ FlagsOf(last.res) : \A c \in SectionControllers(s) :
            /\ WritesOf(c) = <<>>
            /\ SelectSeq(trace, LAMBDA e : e.c = c /\ e.op = "open") = <<>>
            /\ c \in DoneTags => DoneRet(c).ok
            /\ \A f \in KernelFiles(c) : kfile["group"][f] = kprev["group"][f]

\* An apply with the pid section unflagged though it holds a value of the caller's,
\* the pids controller asked to apply, and another section flagged and written.
C2_Witness ==
    /\ last.op = "apply"
    /\ ~last.res.pid.update_values
    /\ last.res.pid.maximum_number_of_processes = PidMax_Value(1337)
    /\ "pids" \in DoneTags
    /\ last.res.memory.update_values
    /\ WritesOf("memory") # <<>>
    /\ kfile # kprev

(***************************************************************************)
(* The apply of one subsystem.                                             *)
(***************************************************************************)
\* Whether the call after call k of the trace opens, for reading, the file that
\* call k is about.
ReadBackAfter(k) ==
    /\ k < Len(trace)
    /\ trace[k + 1].op = "open"
    /\ trace[k + 1].c = trace[k].c
    /\ trace[k + 1].f = trace[k].f

\* Whether the kernel took a write of controller c to file f in the last operation.
AcceptedWrite(c, f) ==
    \E k \in 1..Len(trace) :
        trace[k].c = c /\ trace[k].f = f /\ trace[k].op = "create" /\ trace[k].ok

\* C3: the apply of memory, pids, cpu and net_cls, when the section's flag is set,
\* reads back each value after writing it, and returns an error whenever the
\* kernel took the write and the file does not hold the requested value.
C3_ReadBackAsClaimed ==
    \A c \in {"memory", "pids", "cpu", "net_cls"} :
        AppliedFlagged(c) =>
            /\ \A k \in 1..Len(trace) :
                   trace[k].c = c /\ trace[k].op = "create" => ReadBackAfter(k)
            /\ \A f \in AppliedFiles(c) :
                   AcceptedWrite(c, f) /\ kfile["group"][f] # RequestedContent(last.res, f)
                       => ~DoneRet(c).ok

\* The number of writes that an apply of the section makes when it writes every
\* entry of its lists (blkio: the weight and the leaf weight come first).
ListWrites(res, c) ==
    CASE c = "devices"  -> Len(res.devices.devices)
      [] c = "net_prio" -> Len(res.network.priorities)
      [] c = "hugetlb"  -> Len(res.hugepages.limits)
      [] c = "blkio"    ->
           2 + Len(res.blkio.weight_device) + Len(res.blkio.throttle_read_bps_device)
             + Len(res.blkio.throttle_write_bps_device)
             + Len(res.blkio.throttle_read_iops_device)
             + Len(res.blkio.throttle_write_iops_device)

\* Whether the last operation read a file for controller c.
ReadsOf(c) == SelectSeq(trace, LAMBDA e : e.c = c /\ e.op = "open")

\* C4 as it was claimed: devices, blkio, hugetlb and net_prio read nothing back,
\* return Ok whenever their writes succeed, and write every entry of their lists.
C4_NoVerifyAsClaimed ==
    \A c \in {"devices", "blkio", "hugetlb", "net_prio"} :
        AppliedFlagged(c) =>
            /\ ReadsOf(c) = <<>>
            /\ (\A k \in 1..Len(trace) : trace[k].c = c => trace[k].ok) => DoneRet(c).ok
            /\ Len(WritesOf(c)) = ListWrites(last.res, c)

\* The apply of hugetlb: each limit is written and then read back; the first
\* limit that the file does not show ends the apply with an error, the later
\* entries unwritten.
HugeTlbVerifies ==
    LET ws == WritesOf("hugetlb")
        limits == last.res.hugepages.limits
        n == Len(ws)
    IN  /\ \A k \in 1..Len(trace) :
               trace[k].c = "hugetlb" /\ trace[k].op = "create" => ReadBackAfter(k)
        /\ n <= Len(limits)
        /\ \A j \in 1..n : /\ ws[j].f = HugeFile(limits[j].size)
                           /\ ws[j].text = U64ToString(limits[j].limit)
        /\ IF DoneRet("hugetlb").ok
           THEN /\ n = Len(limits)
                /\ \A j \in 1..n :
                       (\A j2 \in (j + 1)..n : ws[j2].f # ws[j].f)
                           => kfile["group"][ws[j].f] = NumberContent(limits[j].limit)
           ELSE /\ n >= 1
                /\ kfile["group"][ws[n].f] # NumberContent(limits[n].limit)

\* C4, amended: devices, blkio and net_prio read nothing back, return Ok whenever
\* their writes succeed and write every entry of their lists; hugetlb reads each
\* limit back and stops with an error at the first that differs.
C4_NoVerifyAmended ==
    /\ \A c \in {"devices", "blkio", "net_prio"} :
           AppliedFlagged(c) =>
               /\ ReadsOf(c) = <<>>
               /\ (\A k \in 1..Len(trace) : trace[k].c = c => trace[k].ok) => DoneRet(c).ok
               /\ Len(WritesOf(c)) = ListWrites(last.res, c)
    /\ AppliedFlagged("hugetlb") => HugeTlbVerifies

\* An apply whose net_prio wrote both priorities though the kernel refused them,
\* and whose hugetlb stopped with an error at its first limit, leaving the second.
C4_Witness ==
    /\ last.op = "apply"
    /\ AppliedFlagged("net_prio") /\ AppliedFlagged("hugetlb")
    /\ Len(WritesOf("net_prio")) > 1
    /\ Len(WritesOf("hugetlb")) < Len(last.res.hugepages.limits)
    /\ ~DoneRet("hugetlb").ok

\* C5: in the apply of one subsystem a write that fails ends the apply: the
\* subsystem returns an error and writes no later field.
C5_AbortAsClaimed ==
    \A c \in Controllers :
        AppliedFlagged(c) =>
            \A k \in 1..Len(trace) :
                trace[k].c = c /\ trace[k].op = "create" /\ ~trace[k].ok =>
                    /\ ~DoneRet(c).ok
                    /\ \A k2 \in (k + 1)..Len(trace) :
                           ~(trace[k2].c = c /\ trace[k2].op = "create")

\* C10: after an apply or a build with the blkio flag set and nothing refused by
\* the kernel, the group's blkio weight reads as the weight of the section, and the
\* write of the weight is not a write to blkio.leaf_weight.
C10_WeightAsClaimed ==
    AppliedFlagged("blkio") /\ last.fault = NoFault =>
        /\ blkio_weight(World(NoFault), cg.subsystems[Pos("blkio")]).ret.v
               = last.res.blkio.weight
        /\ WritesOf("blkio")[1].f # "blkio.leaf_weight"

(***************************************************************************)
(* Path containment: handles for any group name, and the operations that   *)
(* reach the file system through a controller's path.                      *)
(***************************************************************************)
\* The group names explored: the group, an absolute name, and a name that climbs
\* out of the hierarchy with "..".
Names == {GroupName, <<"/", "srv">>, <<"..", "..", "..", "..", "srv">>}

\* The file names handed to open_path.
PathFiles == {"tasks", "pids.max"}

\* What the record of an operation on one controller keeps of its arguments.
OnController(ct, p, wr) == [ct |-> ct, p |-> p, wr |-> wr]

\* Cgroup::load(&hier, name)
Load ==
    \E name \in Names :
        Finish(World(NoFault), Handle(load(Controllers, name)),
               [NoOp EXCEPT !.op = "load", !.arg = name], 0)

\* hier.root_control_group()
RootControlGroup ==
    Finish(World(NoFault), Handle(load(Controllers, <<>>)),
           [NoOp EXCEPT !.op = "root_control_group", !.arg = <<>>], 0)

\* Cgroup::new(&hier, name): no handle comes back from a panic.
NewNamed ==
    \E name \in Names :
        \E r \in {Cgroup_new(World(NoFault), Controllers, name)} :
            Finish(r.w, IF r.ret.ok THEN Handle(r.ret.v) ELSE cg,
                   [NoOp EXCEPT !.op = "new", !.arg = name,
                                !.ret = [r.ret EXCEPT !.v = Unit]], 0)

\* controller.open_path(p, wr), for any controller of the handle
OpenPath ==
    \E i \in 1..Len(cg.subsystems) : \E p \in PathFiles : \E wr \in BOOLEAN :
        \E r \in {open_path(World(NoFault), cg.subsystems[i], p, wr)} :
            Finish(r.w, cg,
                   [NoOp EXCEPT !.op = "open_path",
                                !.arg = OnController(cg.subsystems[i], p, wr),
                                !.ret = [r.ret EXCEPT !.v = Unit]], 0)

\* The handle's controller of the given kind (Cgroup::controller_of).
ControllerOf(tag) == cg.subsystems[Pos(tag)]

\* pids.set_pid_max(PidMax::Value(7))
SetPidMaxAt ==
    /\ cg.live
    /\ \E r \in {set_pid_max(World(NoFault), ControllerOf("pids"), PidMax_Value(7))} :
           Finish(r.w, cg,
                  [NoOp EXCEPT !.op = "set_pid_max",
                               !.arg = OnController(ControllerOf("pids"), "pids.max", TRUE),
                               !.ret = r.ret], 0)

\* pids.get_pid_max()
GetPidMaxAt ==
    /\ cg.live
    /\ \E r \in {get_pid_max(World(NoFault), ControllerOf("pids"))} :
           Finish(r.w, cg,
                  [NoOp EXCEPT !.op = "get_pid_max",
                               !.arg = OnController(ControllerOf("pids"), "pids.max", FALSE),
                               !.ret = [r.ret EXCEPT !.v = Unit], !.got = r.ret], 0)

\* controller.exists(), for any controller of the handle
Exists ==
    \E i \in 1..Len(cg.subsystems) :
        \E r \in {Controller_exists(World(NoFault), cg.subsystems[i])} :
            Finish(r.w, cg,
                   [NoOp EXCEPT !.op = "exists",
                                !.arg = OnController(cg.subsystems[i], ".", FALSE),
                                !.got = r.ret], 0)

NextPath ==
    \/ Load \/ RootControlGroup \/ NewNamed \/ OpenPath
    \/ SetPidMaxAt \/ GetPidMaxAt \/ Exists \/ Delete

SpecPath == Init /\ [][NextPath]_vars

\* C6: open_path on a controller whose path does not start with its base returns
\* InvalidPath and makes no file system call, for every file name and for reading
\* and writing alike; when the path does start with the base, the open is made.
C6_InvalidPathBeforeOpen ==
    last.op = "open_path" =>
        IF verify_path(last.arg.ct)
        THEN Len(trace) = 1 /\ last.ret.err # "InvalidPath"
        ELSE last.ret = Err("InvalidPath") /\ trace = <<>>

\* An open_path for writing on a controller whose path is outside its base, where
\* the file could have been created.
C6_Witness ==
    /\ last.op = "open_path"
    /\ last.arg.wr
    /\ ~verify_path(last.arg.ct)
    /\ Resolve(last.arg.ct.path) \in host

\* C7: every controller of every handle has a path at or below its base, and the
\* base is the one the controller was constructed with.
C7_PathWithinBaseAsClaimed ==
    \A i \in 1..Len(cg.subsystems) :
        LET ct == cg.subsystems[i]
        IN  /\ StartsWith(ct.path, ct.base)
            /\ StartsWith(Resolve(ct.path), ct.base)
            /\ ct.base = ControllerNew(ct.tag).base

\* Whether the controller's path leads out of its base directory.
Escapes(ct) == ~StartsWith(Resolve(ct.path), ct.base)

\* C8: no call of any operation reaches a place outside the controller's base
\* directory, and an operation on a controller whose path leads out of the base
\* fails with InvalidPath.
C8_NothingOutsideBaseAsClaimed ==
    /\ \A k \in 1..Len(trace) : StartsWith(trace[k].at, ControllerNew(trace[k].c).base)
    /\ last.op \in {"open_path", "set_pid_max", "get_pid_max"} /\ Escapes(last.arg.ct)
           => last.ret = Err("InvalidPath")
    /\ last.op = "new" /\ ~StartsWith(Resolve(PathPush(Root \o <<"pids">>, last.arg)),
                                       Root \o <<"pids">>)
           => last.ret = Err("InvalidPath")

(***************************************************************************)
(* The verified setters, each followed at once by its getter.              *)
(***************************************************************************)
\* The most setter calls explored in one behaviour.
MaxCalls == 2

\* The values handed to the setters of u64 fields (-1 is u64::MAX), to set_class
\* and to set_pid_max.
U64Values == {0, 2, 1337, 100000, -1}
ClassValues == {0, 10, 1337, 65537}
PidMaxValues == {PidMax_Max, PidMax_Value(0), PidMax_Value(1337), PidMax_Value(-1)}

\* What the kernel may do with the write to file f.
FileFaults(f) ==
    {NoFault, [file |-> f, kind |-> "reject"]}
        \cup (IF f \in AdjustingFiles THEN {[file |-> f, kind |-> "adjust"]} ELSE {})

\* The state after a setter's result s and its getter's result g.
FinishRoundTrip(op, v, fault, s, g) ==
    Finish(g.w, cg,
           [NoOp EXCEPT !.op = op, !.arg = v, !.fault = fault, !.ret = s.ret,
                        !.got = g.ret], 1)

\* cpu.set_shares(v); cpu.shares()
SetShares ==
    \E v \in U64Values : \E fault \in FileFaults("cpu.shares") :
        /\ cg.live /\ count < MaxCalls
        /\ \E s \in {set_shares(World(fault), ControllerOf("cpu"), v)} :
           \E g \in {shares(s.w, ControllerOf("cpu"))} :
               FinishRoundTrip("set_shares", v, fault, s, g)

\* cpu.set_cfs_period(v); cpu.cfs_period()
SetCfsPeriod ==
    \E v \in U64Values : \E fault \in FileFaults("cpu.cfs_period_us") :
        /\ cg.live /\ count < MaxCalls
        /\ \E s \in {set_cfs_period(World(fault), ControllerOf("cpu"), v)} :
           \E g \in {cfs_period(s.w, ControllerOf("cpu"))} :
               FinishRoundTrip("set_cfs_period", v, fault, s, g)

\* cpu.set_cfs_quota(v); cpu.cfs_quota()
SetCfsQuota ==
    \E v \in U64Values : \E fault \in FileFaults("cpu.cfs_quota_us") :
        /\ cg.live /\ count < MaxCalls
        /\ \E s \in {set_cfs_quota(World(fault), ControllerOf("cpu"), v)} :
           \E g \in {cfs_quota(s.w, ControllerOf("cpu"))} :
               FinishRoundTrip("set_cfs_quota", v, fault, s, g)

\* pids.set_pid_max(v); pids.get_pid_max()
SetPidMax ==
    \E v \in PidMaxValues : \E fault \in FileFaults("pids.max") :
        /\ cg.live /\ count < MaxCalls
        /\ \E s \in {set_pid_max(World(fault), ControllerOf("pids"), v)} :
           \E g \in {get_pid_max(s.w, ControllerOf("pids"))} :
               FinishRoundTrip("set_pid_max", v, fault, s, g)

\* net_cls.set_class(v); net_cls.get_class()
SetClass ==
    \E v \in ClassValues : \E fault \in FileFaults("net_cls.classid") :
        /\ cg.live /\ count < MaxCalls
        /\ \E s \in {set_class(World(fault), ControllerOf("net_cls"), v)} :
           \E g \in {get_class(s.w, ControllerOf("net_cls"))} :
               FinishRoundTrip("set_class", v, fault, s, g)

NextSetters ==
    New \/ SetShares \/ SetCfsPeriod \/ SetCfsQuota \/ SetPidMax \/ SetClass \/ Delete

SpecSetters == Init /\ [][NextSetters]_vars

VerifiedSetters ==
    {"set_shares", "set_cfs_period", "set_cfs_quota", "set_pid_max", "set_class"}

\* C9: when the kernel took the write of a verified setter and stored the value
\* unmodified, the getter called right after it returns the value that was set.
C9_RoundTrip ==
    /\ last.op \in VerifiedSetters
    /\ last.ret.ok
    /\ last.fault.kind # "adjust"
    => last.got = Ok(last.arg)

\* A set_class of a class id whose decimal and hexadecimal digits differ, taken by
\* the kernel, after an earlier setter call had left another value in a file.
C9_Witness ==
    /\ last.op = "set_class"
    /\ last.arg = 1337
    /\ last.ret.ok
    /\ last.got.ok
    /\ count = MaxCalls

(***************************************************************************)
(* The builder: CgroupBuilder's setters fill a Resources value that build  *)
(* hands to Cgroup::apply.                                                 *)
(***************************************************************************)
\* gen_setter!: the section's flag is set and the named field takes the value.
gen_setter(res, sec, name, v) ==
    [res EXCEPT ![sec] = [@ EXCEPT !.update_values = TRUE, ![name] = v]]

\* HugepagesResourceBuilder::limit: the flag is set and the limit is pushed.
HugepagesResourceBuilder_limit(res, size, limit) ==
    [res EXCEPT !.hugepages = [@ EXCEPT !.update_values = TRUE,
                                        !.limits = Append(@, [size |-> size,
                                                              limit |-> limit])]]

\* The setter calls a caller may put between CgroupBuilder::new and build, in the
\* order of the chain, each with the file its value goes to.
BuilderCalls ==
    <<[sec |-> "memory", name |-> "kernel_memory_limit", v |-> 1024,
       c |-> "memory", f |-> "memory.kmem.limit_in_bytes"],
      [sec |-> "memory", name |-> "swappiness", v |-> 70,
       c |-> "memory", f |-> "memory.swappiness"],
      [sec |-> "memory", name |-> "memory_hard_limit", v |-> 4096,
       c |-> "memory", f |-> "memory.limit_in_bytes"],
      [sec |-> "pid", name |-> "maximum_number_of_processes", v |-> PidMax_Value(123),
       c |-> "pids", f |-> "pids.max"],
      [sec |-> "cpu", name |-> "shares", v |-> 85,
       c |-> "cpu", f |-> "cpu.shares"],
      [sec |-> "network", name |-> "class_id", v |-> 1337,
       c |-> "net_cls", f |-> "net_cls.classid"],
      [sec |-> "hugepages", name |-> "limit", v |-> 8192,
       c |-> "hugetlb", f |-> HugeFile("2MB")]>>

RECURSIVE BuilderChain(_, _, _)
\* The Resources of the builder after the picked calls from call i on.
BuilderChain(res, picked, i) ==
    IF i > Len(BuilderCalls) THEN res
    ELSE Let(BuilderCalls[i], LAMBDA call :
         Let(IF i \notin picked THEN res
             ELSE IF call.sec = "hugepages"
             THEN HugepagesResourceBuilder_limit(res, "2MB", call.v)
             ELSE gen_setter(res, call.sec, call.name, call.v),
             LAMBDA nx : BuilderChain(nx, picked, i + 1)))

\* CgroupBuilder::new(name, &hier) followed by the picked calls.
BuilderResources(picked) == BuilderChain(DefaultResources, picked, 1)

\* MemController::memory_stat().limit_in_bytes, .swappiness and
\* kmem_stat().limit_in_bytes: a failed read degrades to 0.
memory_stat_field(w, ct, file) ==
    Let(read_u64_file(w, ct, file), LAMBDA r :
        [w |-> r.w, ret |-> IF r.ret.ok THEN r.ret ELSE Ok(0)])

\* The getter that reads back the field of builder call i, as the tests call it.
BuilderGetter(w, subs, i) ==
    LET call == BuilderCalls[i]
        ct == subs[CHOOSE k \in 1..Len(subs) : subs[k].tag = call.c]
    IN  CASE call.c = "memory"  -> memory_stat_field(w, ct, call.f)
          [] call.c = "pids"    -> get_pid_max(w, ct)
          [] call.c = "cpu"     -> shares(w, ct)
          [] call.c = "net_cls" -> get_class(w, ct)
          [] call.c = "hugetlb" -> limit_in_bytes(w, ct, "2MB")

\* CgroupBuilder::new("g", &hier) .. the picked setters .. build()
BuilderBuild ==
    \E sup \in SupportedSets : \E picked \in SUBSET (1..Len(BuilderCalls)) :
    \E res \in {BuilderResources(picked)} : \E fault \in Faults(res) :
        /\ ~cg.live
        /\ \E r \in {CgroupBuilder_build(World(fault), sup, GroupName, res)} :
               Finish(r.w, Handle(r.ret.v),
                      [NoOp EXCEPT !.op = "builder", !.res = res, !.fault = fault,
                                   !.done = r.done, !.arg = picked], 0)

NextBuilder == BuilderBuild \/ Delete

SpecBuilder == Init /\ [][NextBuilder]_vars

\* C11: after build, when the kernel took every value given to the builder
\* unmodified, every field set through the builder reads back from the group's
\* controller with the value given.
C11_BuilderReadsBackAsClaimed ==
    /\ last.op = "builder"
    /\ last.fault.file \notin {BuilderCalls[j].f : j \in last.arg}
    => \A i \in last.arg :
           (\E k \in 1..Len(cg.subsystems) : cg.subsystems[k].tag = BuilderCalls[i].c)
               => BuilderGetter(World(NoFault), cg.subsystems, i).ret
                      = Ok(BuilderCalls[i].v)

(***************************************************************************)
(* Tasks: attaching a process to the group, taking it back to the root     *)
(* group, and listing the group's tasks.                                   *)
(***************************************************************************)
\* Controller::add_task: the pid is written to the tasks file.
Controller_add_task(w, ct, pid) == write_file(w, ct, "tasks", U64ToString(pid))

RECURSIVE ParsePids(_, _)
\* line.trim().parse().unwrap_or(0) for each line of the file.
ParsePids(ls, i) ==
    IF i > Len(ls) THEN <<>>
    ELSE Let(ParseU64(Trim(ls[i])), LAMBDA p :
             <<IF p.ok THEN p.n ELSE 0>> \o ParsePids(ls, i + 1))

\* Controller::tasks: the pids of the lines of the tasks file, none when the file
\* cannot be opened.
Controller_tasks(w, ct) ==
    Let(open_path(w, ct, "tasks", FALSE), LAMBDA o :
        IF ~o.ret.ok THEN [w |-> o.w, ret |-> Ok(<<>>)]
        ELSE Let(read_to_string(o.w, o.ret.v), LAMBDA r :
                 [w |-> r.w, ret |-> Ok(ParsePids(Lines(r.ret.v), 1))]))

RECURSIVE AddTaskEach(_, _, _, _, _)
\* A for_each over the subsystems that keeps the first error.
AddTaskEach(w, subs, pid, i, first) ==
    IF i > Len(subs) THEN [w |-> w, ret |-> first]
    ELSE Let(Controller_add_task(w, subs[i], pid), LAMBDA r :
             AddTaskEach(r.w, subs, pid, i + 1, IF first.ok THEN r.ret ELSE first))

RECURSIVE AddTaskLoop(_, _, _, _)
\* Cgroup::add_task: try_for_each over the subsystems, ended by the first error.
AddTaskLoop(w, subs, pid, i) ==
    IF i > Len(subs) THEN [w |-> w, ret |-> Ok(Unit)]
    ELSE Let(Controller_add_task(w, subs[i], pid), LAMBDA r :
             IF r.ret.ok THEN AddTaskLoop(r.w, subs, pid, i + 1) ELSE r)

\* An add_task that goes on to the later subsystems after a write failed.
Cgroup_add_task_each(w, subs, pid) == AddTaskEach(w, subs, pid, 1, Ok(Unit))

\* Cgroup::add_task
Cgroup_add_task(w, subs, pid) == AddTaskLoop(w, subs, pid, 1)

\* The controllers of the hierarchy a handle was loaded from: those of the handle.
HierOf(subs) == {subs[i].tag : i \in 1..Len(subs)}

\* Cgroup::remove_task without the root group: the pid is added to the group again.
Cgroup_remove_task_self(w, subs, pid) ==
    Let(Cgroup_add_task(w, subs, pid), LAMBDA r : [w |-> r.w, ret |-> Ok(Unit)])

\* Cgroup::remove_task: add_task on the hierarchy's root group, its result dropped.
Cgroup_remove_task(w, subs, pid) ==
    Let(Cgroup_add_task(w, load(HierOf(subs), <<>>), pid), LAMBDA r :
        [w |-> r.w, ret |-> Ok(Unit)])

RECURSIVE InsertPid(_, _)
\* A sorted list with the pid put before the first greater pid.
InsertPid(v, pid) ==
    IF v = <<>> THEN <<pid>>
    ELSE IF pid < Head(v) THEN <<pid>> \o v
    ELSE <<Head(v)>> \o InsertPid(Tail(v), pid)

RECURSIVE SortPidsTo(_, _)
SortPidsTo(v, i) == IF i = 0 THEN <<>> ELSE InsertPid(SortPidsTo(v, i - 1), v[i])

\* A sort that leaves the list as it is.
SortPidsNone(v) == v

\* Vec::sort by CgroupPid's derived order, the order of the pids.
SortPids(v) == SortPidsTo(v, Len(v))

\* Vec::dedup: of consecutive equal elements the first is kept.
Dedup(v) == SelectSeq([i \in 1..Len(v) |-> [x |-> v[i], keep |-> i = 1 \/ v[i] # v[i - 1]]],
                      LAMBDA e : e.keep)

RECURSIVE TasksFold(_, _, _, _)
\* The fold of Cgroup::tasks: every subsystem's task list appended to acc.
TasksFold(w, subs, i, acc) ==
    IF i > Len(subs) THEN [w |-> w, ret |-> Ok(acc)]
    ELSE Let(Controller_tasks(w, subs[i]), LAMBDA r :
             TasksFold(r.w, subs, i + 1, acc \o r.ret.v))

\* Cgroup::tasks without its dedup.
Cgroup_tasks_undeduped(w, subs) ==
    Let(TasksFold(w, subs, 1, <<>>), LAMBDA r :
        [w |-> r.w, ret |-> Ok(SortPids(r.ret.v))])

\* Cgroup::tasks: the lists of all subsystems, sorted, then deduplicated.
Cgroup_tasks(w, subs) ==
    Let(TasksFold(w, subs, 1, <<>>), LAMBDA r :
    Let(SortPids(r.ret.v), LAMBDA sorted :
    Let(Dedup(sorted), LAMBDA v :
        [w |-> r.w, ret |-> Ok([i \in 1..Len(v) |-> v[i].x])])))

\* The most add_task calls explored in one behaviour.
MaxAttach == 3

\* The pids handed to add_task and remove_task, and the controllers that a caller
\* attaches a task to one by one.
TaskPids == ProcessIds \cup {NoProcess}
TaskControllers == {"pids", "hugetlb"}

\* cg.add_task(CgroupPid::from(pid)); got keeps the attachments before the call.
AddTask ==
    \E pid \in TaskPids :
        /\ cg.live /\ count < MaxAttach
        /\ \E r \in {Cgroup_add_task(World(NoFault), cg.subsystems, pid)} :
               Finish(r.w, cg, [NoOp EXCEPT !.op = "add_task", !.arg = pid, !.ret = r.ret,
                                            !.got = Ok(ktasks)], 1)

\* cg.controller_of::<T>().unwrap().add_task(&CgroupPid::from(pid))
AddTaskAt ==
    \E pid \in ProcessIds : \E i \in 1..Len(cg.subsystems) :
        /\ cg.live /\ count < MaxAttach
        /\ cg.subsystems[i].tag \in TaskControllers
        /\ \E r \in {Controller_add_task(World(NoFault), cg.subsystems[i], pid)} :
               Finish(r.w, cg, [NoOp EXCEPT !.op = "controller_add_task", !.arg = pid,
                                            !.ret = r.ret, !.got = Ok(ktasks)], 1)

\* cg.remove_task(CgroupPid::from(pid)); got keeps the attachments before the call.
RemoveTask ==
    \E pid \in TaskPids :
        /\ cg.live
        /\ \E r \in {Cgroup_remove_task(World(NoFault), cg.subsystems, pid)} :
               Finish(r.w, cg, [NoOp EXCEPT !.op = "remove_task", !.arg = pid,
                                            !.got = Ok(ktasks)], 0)

\* cg.tasks()
Tasks ==
    /\ cg.live
    /\ \E r \in {Cgroup_tasks(World(NoFault), cg.subsystems)} :
           Finish(r.w, cg, [NoOp EXCEPT !.op = "tasks", !.got = r.ret], 0)

NextTasks == New \/ AddTask \/ AddTaskAt \/ RemoveTask \/ Tasks \/ Delete

SpecTasks == Init /\ [][NextTasks]_vars

\* The pids of a list, and what cg.tasks() returns in the current state.
PidSet(v) == {v[i] : i \in 1..Len(v)}
TasksNow == Cgroup_tasks(World(NoFault), cg.subsystems).ret.v

\* C12: after an add_task(pid) that succeeded on a group that had no task other
\* than pid, tasks() is the list of pid alone, also when pid was attached before.
C12_AddTaskOnce ==
    /\ last.op = "add_task"
    /\ last.ret.ok
    /\ \A c \in Controllers : PidSet(last.got.v[c]) \subseteq {last.arg}
    => TasksNow = <<last.arg>>

\* A successful add_task of a pid that every subsystem of the group already held.
C12_Witness ==
    /\ last.op = "add_task"
    /\ last.ret.ok
    /\ \A c \in HierOf(cg.subsystems) : last.got.v[c] = <<last.arg>>
    /\ TasksNow = <<last.arg>>

\* C13: after remove_task(pid) of a pid that was attached to the group, tasks()
\* does not list the pid, no subsystem of the group lists it, and the root group
\* of every subsystem lists it.
C13_RemoveTaskToRoot ==
    /\ last.op = "remove_task"
    /\ \E c \in Controllers : last.arg \in PidSet(last.got.v[c])
    => /\ last.arg \notin PidSet(TasksNow)
       /\ \A i \in 1..Len(cg.subsystems) :
              /\ last.arg \notin PidSet(Controller_tasks(World(NoFault),
                                                         cg.subsystems[i]).ret.v)
              /\ last.arg \in PidSet(Controller_tasks(
                                  World(NoFault),
                                  ControllerNew(cg.subsystems[i].tag)).ret.v)

\* A remove_task of a pid that was attached in every subsystem, another pid
\* staying in the group.
C13_Witness ==
    /\ last.op = "remove_task"
    /\ \A c \in HierOf(cg.subsystems) : last.arg \in PidSet(last.got.v[c])
    /\ TasksNow # <<>>
    /\ last.arg \notin PidSet(TasksNow)

\* C14: tasks() returns, in strictly ascending order, exactly the pids that the
\* task list of at least one subsystem of the group holds.
C14_TasksUnion ==
    last.op = "tasks" =>
        LET v == last.got.v
        IN  /\ \A i \in 1..(Len(v) - 1) : v[i] < v[i + 1]
            /\ PidSet(v) = UNION {PidSet(Controller_tasks(World(NoFault),
                                                           cg.subsystems[i]).ret.v) :
                                  i \in 1..Len(cg.subsystems)}

\* A tasks() of two pids of which one subsystem lists the greater first and
\* another subsystem lists only one.
C14_Witness ==
    /\ last.op = "tasks"
    /\ Len(last.got.v) = 2
    /\ \E c \in HierOf(cg.subsystems) : Len(ktasks[c]) = 2 /\ ktasks[c][1] > ktasks[c][2]
    /\ \E c \in HierOf(cg.subsystems) : Len(ktasks[c]) = 1


(***************************************************************************)
(* The devices allowed to a group, read back from devices.list.            *)
(***************************************************************************)
\* DeviceType::from_char on the first character of a token, if it has one.
DeviceType_from_char(token) ==
    IF token = <<>> THEN "None"
    ELSE CASE token[1] = "a" -> "All"
           [] token[1] = "c" -> "Char"
           [] token[1] = "b" -> "Block"
           [] OTHER -> "None"

\* DevicePermissions::from_char
DevicePermissions_from_char(ch) ==
    CASE ch = "r" -> "Read" [] ch = "w" -> "Write" [] ch = "m" -> "MkNod" [] OTHER -> "None"

\* DevicePermissions::is_valid
DevicePermissions_is_valid(s) ==
    s # <<>> /\ \A i \in 1..Len(s) : s[i] \in {"r", "w", "m"}

\* DevicePermissions::all, from_string
DevicePermissions_all == <<"Read", "Write", "MkNod">>
DevicePermissions_from_string(s) ==
    [i \in 1..Len(s) |-> DevicePermissions_from_char(s[i])]

\* A device number of a line without the reading of "*" as -1.
DeviceNumberNoWildcard(token) == ParseI64(token)

\* A device number of a line: an i64, or "*" for -1.
DeviceNumber(token) ==
    LET p == ParseI64(token)
    IN  IF ~p.ok /\ token = <<"*">> THEN ParseOk(-1) ELSE p

\* The step of the fold of allowed_devices over one line.
DeviceLine(acc, line) ==
    LET ls == SplitOn(line, {" ", ":"})
    IN  IF ~acc.ok \/ Len(ls) # 4 THEN Err("ParseError")
        ELSE LET devtype == DeviceType_from_char(ls[1])
                 major == DeviceNumber(ls[2])
                 minor == DeviceNumber(ls[3])
             IN  IF devtype = "None" \/ ~major.ok \/ ~minor.ok
                    \/ ~DevicePermissions_is_valid(ls[4])
                 THEN Err("ParseError")
                 ELSE Ok(Append(acc.v, [allow |-> TRUE, devtype |-> devtype,
                                        major |-> major.n, minor |-> minor.n,
                                        access |-> DevicePermissions_from_string(ls[4])]))

RECURSIVE DeviceFold(_, _, _)
DeviceFold(ls, i, acc) ==
    IF i > Len(ls) THEN acc
    ELSE Let(DeviceLine(acc, ls[i]), LAMBDA a : DeviceFold(ls, i + 1, a))

\* s.lines().fold(Ok(Vec::new()), ..)
DeviceList(text) == DeviceFold(Lines(text), 1, Ok(<<>>))

\* DevicesController::allowed_devices
allowed_devices(w, ct) ==
    Let(open_path(w, ct, "devices.list", FALSE), LAMBDA o :
        IF ~o.ret.ok THEN o
        ELSE Let(read_to_string(o.w, o.ret.v), LAMBDA r :
                 [w |-> r.w, ret |-> DeviceList(r.ret.v)]))

\* The rules a caller allows and denies: all devices, /dev/null with one and
\* with all permissions, and every minor of a block major.
DeviceRules ==
    {[devtype |-> "All", major |-> -1, minor |-> -1, perm |-> DevicePermissions_all],
     [devtype |-> "Char", major |-> 1, minor |-> 3, perm |-> <<"MkNod">>],
     [devtype |-> "Char", major |-> 1, minor |-> 3, perm |-> <<"Read">>],
     [devtype |-> "Char", major |-> 1, minor |-> 3, perm |-> DevicePermissions_all],
     [devtype |-> "Block", major |-> 8, minor |-> -1, perm |-> <<"Read", "Write">>],
     [devtype |-> "Block", major |-> 8, minor |-> -1, perm |-> DevicePermissions_all]}

\* The rules written in one behaviour.
MaxRules == 3

HasDevices == \E i \in 1..Len(cg.subsystems) : cg.subsystems[i].tag = "devices"

\* devices.allow_device(devtype, major, minor, &perm)
AllowDevice ==
    \E d \in DeviceRules :
        /\ cg.live /\ HasDevices /\ count < MaxRules
        /\ \E r \in {allow_device(World(NoFault), ControllerOf("devices"),
                                  d.devtype, d.major, d.minor, d.perm)} :
               Finish(r.w, cg, [NoOp EXCEPT !.op = "allow_device", !.arg = d,
                                            !.ret = r.ret], 1)

\* devices.deny_device(devtype, major, minor, &perm)
DenyDevice ==
    \E d \in DeviceRules :
        /\ cg.live /\ HasDevices /\ count < MaxRules
        /\ \E r \in {deny_device(World(NoFault), ControllerOf("devices"),
                                 d.devtype, d.major, d.minor, d.perm)} :
               Finish(r.w, cg, [NoOp EXCEPT !.op = "deny_device", !.arg = d,
                                            !.ret = r.ret], 1)

\* devices.allowed_devices()
AllowedDevices ==
    /\ cg.live /\ HasDevices
    /\ \E r \in {allowed_devices(World(NoFault), ControllerOf("devices"))} :
           Finish(r.w, cg, [NoOp EXCEPT !.op = "allowed_devices", !.got = r.ret], 0)

NextDevices == New \/ AllowDevice \/ DenyDevice \/ AllowedDevices \/ Delete

SpecDevices == Init /\ [][NextDevices]_vars

\* What allowed_devices() returns in the current state and what it returned
\* before the last rule was written.
AllowedNow == allowed_devices(World(NoFault), ControllerOf("devices")).ret
AllowedBefore == DeviceList(kprev["group"]["devices.list"])
RuleEntry(d) ==
    [allow |-> TRUE, devtype |-> d.devtype, major |-> d.major, minor |-> d.minor,
     access |-> d.perm]

\* C15: after a deny of all devices allowed_devices() is empty; an allow of one
\* device on the empty list makes it the one entry of that device, allowed, with
\* the permissions given, a -1 being written as "*" and "*" read back as -1; a
\* deny of that device with at least its permissions empties the list again.
C15_DeviceRoundTrip ==
    /\ last.op = "deny_device" /\ last.ret.ok /\ last.arg.devtype = "All"
           => AllowedNow = Ok(<<>>)
    /\ last.op = "allow_device" /\ last.ret.ok /\ last.arg.devtype # "All"
          /\ AllowedBefore = Ok(<<>>)
           => /\ AllowedNow = Ok(<<RuleEntry(last.arg)>>)
              /\ last.arg.minor = -1
                     => \E k \in 1..Len(trace) :
                            /\ trace[k].op = "create" /\ trace[k].f = "devices.allow"
                            /\ trace[k].text
                                 = <<DeviceType_to_char(last.arg.devtype), " ">>
                                   \o I64ToString(last.arg.major) \o <<":", "*", " ">>
                                   \o [i \in 1..Len(last.arg.perm) |->
                                         DevicePermissions_to_char(last.arg.perm[i])]
    /\ last.op = "deny_device" /\ last.ret.ok /\ last.arg.devtype # "All"
          /\ AllowedBefore.ok /\ Len(AllowedBefore.v) = 1
          /\ AllowedBefore.v[1].devtype = last.arg.devtype
          /\ AllowedBefore.v[1].major = last.arg.major
          /\ AllowedBefore.v[1].minor = last.arg.minor
          /\ {AllowedBefore.v[1].access[i] : i \in 1..Len(AllowedBefore.v[1].access)}
                \subseteq {last.arg.perm[i] : i \in 1..Len(last.arg.perm)}
           => AllowedNow = Ok(<<>>)

\* A group whose list was emptied, was given every minor of a block major, and
\* was emptied again by the deny of that device.
C15_Witness ==
    /\ last.op = "deny_device" /\ last.ret.ok
    /\ last.arg.devtype = "Block" /\ last.arg.minor = -1
    /\ AllowedBefore = Ok(<<RuleEntry([last.arg EXCEPT !.perm = <<"Read", "Write">>])>>)
    /\ AllowedNow = Ok(<<>>)


(***************************************************************************)
(* allowed_devices on the lines a devices.list can be made of.             *)
(***************************************************************************)
\* Lines of a device list: three the kernel prints, and lines that are not of the
\* form "<type> <major>:<minor> <perms>".
LineSamples ==
    {<<"c", " ", "1", ":", "3", " ", "m">>,
     <<"b", " ", "8", ":", "*", " ", "r", "w">>,
     <<"a", " ", "*", ":", "*", " ", "r", "w", "m">>,
     <<"c", " ", "1", ":", "3">>,
     <<"c", " ", "1", ":", "3", " ", "x">>,
     <<"d", " ", "1", ":", "3", " ", "r">>,
     <<"c", "x", " ", "1", ":", "3", " ", "r">>,
     <<"c", " ", "1", " ", "3", " ", "r">>,
     <<>>}

\* The lines of one list.
MaxLines == 2

DeviceTexts == {Unlines(ls) : ls \in UNION {[1..n -> LineSamples] : n \in 0..MaxLines}}

\* A handle loaded on an existing group whose devices.list shows one of the texts.
InitLines ==
    /\ cg = Handle(load(Controllers, GroupName))
    /\ \E text \in DeviceTexts :
           kfile = [sc \in {"group", "root"} |->
                      IF sc = "group" THEN [DefaultFiles EXCEPT !["devices.list"] = text]
                      ELSE DefaultFiles]
    /\ kdir = Controllers
    /\ kchild = {}
    /\ ktasks = [c \in Controllers |-> <<>>]
    /\ host = HostInit
    /\ trace = <<>>
    /\ last = NoOp
    /\ kprev = [sc \in {"group", "root"} |-> DefaultFiles]
    /\ count = 0
    /\ procs = [a \in Actors |-> Idle]

NextLines == AllowedDevices

SpecLines == InitLines /\ [][NextLines]_vars

\* A line of the form "<type> <major>:<minor> <perms>": type one of a, c, b, major
\* and minor a number or "*", perms a non-empty text over r, w, m.
RuleFormat(line) ==
    LET fs == SplitOn(line, {" "})
        dev == IF Len(fs) = 3 THEN SplitOn(fs[2], {":"}) ELSE <<>>
        num(t) == t = <<"*">> \/ (t # <<>> /\ AllDigits(t, 10))
    IN  /\ Len(fs) = 3
        /\ fs[1] \in {<<"a">>, <<"c">>, <<"b">>}
        /\ Len(dev) = 2 /\ num(dev[1]) /\ num(dev[2])
        /\ fs[3] # <<>> /\ \A i \in 1..Len(fs[3]) : fs[3][i] \in {"r", "w", "m"}

\* The entry of a line of that form.
FormatEntry(line) ==
    LET fs == SplitOn(line, {" "})
        dev == SplitOn(fs[2], {":"})
        num(t) == IF t = <<"*">> THEN -1 ELSE FromRadix(t, 10)
    IN  [allow |-> TRUE,
         devtype |-> CASE fs[1] = <<"a">> -> "All" [] fs[1] = <<"c">> -> "Char"
                       [] fs[1] = <<"b">> -> "Block",
         major |-> num(dev[1]), minor |-> num(dev[2]),
         access |-> [i \in 1..Len(fs[3]) |->
                       CASE fs[3][i] = "r" -> "Read" [] fs[3][i] = "w" -> "Write"
                         [] fs[3][i] = "m" -> "MkNod"]]

\* C16: allowed_devices() returns the parse error when a line of the list is not
\* of the form "<type> <major>:<minor> <perms>", wherever the line is, and one
\* entry per line in the order of the file otherwise.
C16_StrictParseAsClaimed ==
    last.op = "allowed_devices"
    => LET ls == Lines(kfile["group"]["devices.list"])
       IN  IF \E i \in 1..Len(ls) : ~RuleFormat(ls[i])
           THEN last.got = Err("ParseError")
           ELSE last.got = Ok([i \in 1..Len(ls) |-> FormatEntry(ls[i])])


(***************************************************************************)
(* Deleting a group that has tasks or a descendant.                        *)
(***************************************************************************)
\* Cgroup::new(&hier, "g/sub"), the handle dropped.
NewChild ==
    \E r \in {Cgroup_new(World(NoFault), Controllers, ChildName)} :
        /\ r.ret.ok
        /\ Finish(r.w, cg, [NoOp EXCEPT !.op = "new_child"], 0)

\* Cgroup::load(&hier, "g/sub").delete()
DeleteChild ==
    /\ kchild # {}
    /\ \E r \in {Cgroup_delete(World(NoFault), load(Controllers, ChildName))} :
           Finish(r.w, cg, [NoOp EXCEPT !.op = "delete_child"], 0)

NextDelete == New \/ NewChild \/ DeleteChild \/ AddTask \/ RemoveTask \/ Delete

SpecDelete == Init /\ [][NextDelete]_vars

\* What exists() answers in the current state on a controller of the handle that
\* the last delete consumed.
ExistsAfter(i) == Controller_exists(World(NoFault), last.arg[i]).ret.v

\* C17: after delete() on a group without attached tasks and without a
\* descendant, exists() is false on every controller the handle had.
C17_DeleteRemovesAll ==
    /\ last.op = "delete"
    /\ \A c \in Controllers : last.got.v.tasks[c] = <<>>
    /\ last.got.v.child = {}
    => \A i \in 1..Len(last.arg) : ~ExistsAfter(i)

\* A group that had a task attached, whose directories all existed and whose
\* tasks had all gone back to the root when it was deleted.
C17_Witness ==
    /\ last.op = "delete"
    /\ count > 0
    /\ \A c \in Controllers : last.got.v.tasks[c] = <<>>
    /\ last.got.v.child = {}
    /\ Len(last.arg) > 1
    /\ \A i \in 1..Len(last.arg) : last.arg[i].tag \in last.got.v.dirs
    /\ kdir = {}

\* C18: when delete() meets a directory that the kernel does not remove, because
\* tasks are attached to the group or the group has a descendant, the directory
\* stays and delete() returns the error of the system.
C18_RefusalSurfacedAsClaimed ==
    /\ last.op = "delete"
    /\ \E i \in 1..Len(last.arg) :
           /\ last.arg[i].tag \in last.got.v.dirs
           /\ \/ last.got.v.tasks[last.arg[i].tag] # <<>>
              \/ last.arg[i].tag \in last.got.v.child
    => /\ \A i \in 1..Len(last.arg) :
              (/\ last.arg[i].tag \in last.got.v.dirs
               /\ \/ last.got.v.tasks[last.arg[i].tag] # <<>>
                  \/ last.arg[i].tag \in last.got.v.child)
              => ExistsAfter(i)
       /\ ~last.ret.ok


(***************************************************************************)
(* The life of a handle: new, operations, delete.                          *)
(***************************************************************************)
\* The operations that change the group through one handle after another.
MaxLife == 2

\* The limits applied during the life of a handle: the pid and the memory section.
LifeResources ==
    {WithFlags(CustomResources, {"pid"}), WithFlags(CustomResources, {"memory"})}

\* cg.apply(&res)
LifeApply ==
    \E res \in LifeResources :
        /\ cg.live
        /\ count < MaxLife
        /\ \E r \in {Cgroup_apply(World(NoFault), cg.subsystems, res)} :
               Finish(r.w, cg,
                      [NoOp EXCEPT !.op = "apply", !.res = res, !.ret = r.ret,
                                   !.done = r.done], 1)

LifeAddTask == count < MaxLife /\ AddTask
LifeAddTaskAt == count < MaxLife /\ AddTaskAt

NextLife == New \/ LifeApply \/ LifeAddTask \/ LifeAddTaskAt \/ RemoveTask \/ Tasks \/ Delete

SpecLife == Init /\ [][NextLife]_vars

\* The operations issued through a handle.
HandleOps == {"apply", "add_task", "controller_add_task", "remove_task", "tasks", "delete"}

control_type(ct) ==
    CASE ct.tag = "pids" -> "Pids"
      [] ct.tag = "memory" -> "Mem"
      [] ct.tag = "cpuset" -> "CpuSet"
      [] ct.tag = "cpuacct" -> "CpuAcct"
      [] ct.tag = "cpu" -> "Cpu"
      [] ct.tag = "devices" -> "Devices"
      [] ct.tag = "freezer" -> "Freezer"
      [] ct.tag = "net_cls" -> "NetCls"
      [] ct.tag = "blkio" -> "BlkIo"
      [] ct.tag = "perf_event" -> "PerfEvent"
      [] ct.tag = "net_prio" -> "NetPrio"
      [] ct.tag = "hugetlb" -> "HugeTlb"
      [] ct.tag = "rdma" -> "Rdma"

\* A controller_type that answers Cpu for the CpuAcctController.
controller_type_swapped(T) ==
    CASE T = "pids" -> "Pids"
      [] T = "memory" -> "Mem"
      [] T = "cpuset" -> "CpuSet"
      [] T = "cpuacct" -> "Cpu"
      [] T = "cpu" -> "Cpu"
      [] T = "devices" -> "Devices"
      [] T = "freezer" -> "Freezer"
      [] T = "net_cls" -> "NetCls"
      [] T = "blkio" -> "BlkIo"
      [] T = "perf_event" -> "PerfEvent"
      [] T = "net_prio" -> "NetPrio"
      [] T = "hugetlb" -> "HugeTlb"
      [] T = "rdma" -> "Rdma"

\* ControllIdentifier::controller_type of a controller type, the type named by the
\* subsystem that wraps it.
controller_type(T) ==
    CASE T = "pids" -> "Pids"
      [] T = "memory" -> "Mem"
      [] T = "cpuset" -> "CpuSet"
      [] T = "cpuacct" -> "CpuAcct"
      [] T = "cpu" -> "Cpu"
      [] T = "devices" -> "Devices"
      [] T = "freezer" -> "Freezer"
      [] T = "net_cls" -> "NetCls"
      [] T = "blkio" -> "BlkIo"
      [] T = "perf_event" -> "PerfEvent"
      [] T = "net_prio" -> "NetPrio"
      [] T = "hugetlb" -> "HugeTlb"
      [] T = "rdma" -> "Rdma"

\* Option: Some(v) and None.
Some(v) == [some |-> TRUE, v |-> v]
None == [some |-> FALSE, v |-> Unit]

\* From<&Subsystem> for &T: the controller of T's own variant; any other variant
\* panics (the macro's panic!, or the assert_eq!(1, 0) ahead of mem::uninitialized).
From_Subsystem(T, sub) == IF sub.tag = T THEN Ok(Some(sub)) ELSE Err("Panic")

RECURSIVE controller_of_from(_, _, _)
controller_of_from(subs, T, i) ==
    IF i > Len(subs) THEN Ok(None)
    ELSE IF control_type(subs[i]) = controller_type(T) THEN From_Subsystem(T, subs[i])
    ELSE controller_of_from(subs, T, i + 1)

\* Cgroup::controller_of::<T>()
Cgroup_controller_of(subs, T) == controller_of_from(subs, T, 1)

\* The controllers that the hierarchies of the lookups support: any of these four
\* may be missing from the mounts.
LookupSets == {Controllers \ gone : gone \in SUBSET {"pids", "cpuacct", "net_prio", "rdma"}}

\* Cgroup::new(&hier, "g") on one of these hierarchies.
NewOn ==
    \E sup \in LookupSets :
        /\ ~cg.live
        /\ \E r \in {Cgroup_new(World(NoFault), sup, GroupName)} :
               Finish(r.w, Handle(r.ret.v), [NoOp EXCEPT !.op = "new"], 0)

\* cg.controller_of::<T>()
ControllerOfType ==
    \E T \in Controllers :
        /\ cg.live
        /\ Finish(World(NoFault), cg,
                  [NoOp EXCEPT !.op = "controller_of", !.arg = T,
                               !.got = Cgroup_controller_of(cg.subsystems, T)], 0)

NextLookup == NewOn \/ ControllerOfType \/ Delete

SpecLookup == Init /\ [][NextLookup]_vars

\* C20: controller_of::<T>() never traps; it returns the first subsystem of the
\* group that wraps a T when there is one, and None otherwise.
C20_ControllerOf ==
    last.op = "controller_of"
    => LET at == {i \in 1..Len(cg.subsystems) : cg.subsystems[i].tag = last.arg}
       IN  /\ last.got.ok
           /\ IF at = {} THEN last.got.v = None
              ELSE \E i \in at :
                       /\ \A j \in at : i <= j
                       /\ last.got.v = Some(cg.subsystems[i])

\* A lookup that found its controller behind others, and one that found none.
C20_Witness ==
    /\ last.op = "controller_of"
    /\ last.arg = "cpu"
    /\ last.got = Ok(Some(ControllerOf("cpu")))
    /\ Pos("cpu") > 3
    /\ Cgroup_controller_of(cg.subsystems, "rdma") = Ok(None)


(***************************************************************************)
(* CpuSetController::set_enable_memory_pressure.                           *)
(***************************************************************************)
\* Path::new(p).exists() for a relative p: the file is looked up in the working
\* directory of the process.
Path_exists(w, cwd, p) ==
    LET at == Resolve(PathPush(cwd, <<p>>))
    IN  at \in w.host \/ at = Root \o <<"cpuset", RootOnlyFile>>

\* ControllerInternal::path_exists
path_exists(w, ct, cwd, p) ==
    verify_path(ct) /\ Path_exists(w, cwd, p)

\* CpuSetController::set_enable_memory_pressure
set_enable_memory_pressure(w, ct, cwd, b) ==
    IF ~path_exists(w, ct, cwd, RootOnlyFile) THEN [w |-> w, ret |-> Err("InvalidOperation")]
    ELSE write_file(w, ct, RootOnlyFile, IF b THEN <<"1">> ELSE <<"0">>)

\* The working directories of the caller: an empty directory, and the directory of
\* the cpuset controller's root group.
WorkingDirs == {<<"/", "srv">>, Root \o <<"cpuset">>}

\* cpuset.set_enable_memory_pressure(b), called from one of the directories
SetEnableMemoryPressure ==
    \E cwd \in WorkingDirs : \E b \in BOOLEAN :
        /\ cg.live
        /\ \E r \in {set_enable_memory_pressure(World(NoFault), ControllerOf("cpuset"),
                                                cwd, b)} :
               Finish(r.w, cg,
                      [NoOp EXCEPT !.op = "set_enable_memory_pressure",
                                   !.arg = [cwd |-> cwd, b |-> b], !.ret = r.ret], 0)

NextPressure == New \/ Load \/ RootControlGroup \/ SetEnableMemoryPressure \/ Delete

SpecPressure == Init /\ [][NextPressure]_vars

\* The writes of the last operation.
Creates == SelectSeq(trace, LAMBDA e : e.op = "create")

\* C21: set_enable_memory_pressure returns InvalidOperation and writes nothing
\* exactly when the handle is not the root control group; on the root control
\* group it writes the flag to cpuset.memory_pressure_enabled and returns what
\* the write returned.
C21_PressureAsClaimed ==
    last.op = "set_enable_memory_pressure"
    => IF Scope(ControllerOf("cpuset")) # "root"
       THEN last.ret = Err("InvalidOperation") /\ Creates = <<>>
       ELSE /\ Len(Creates) = 1
            /\ Creates[1].f = RootOnlyFile
            /\ Creates[1].text = (IF last.arg.b THEN <<"1">> ELSE <<"0">>)
            /\ last.ret.ok = Creates[1].ok
            /\ last.ret # Err("InvalidOperation")


(***************************************************************************)
(* The same limits applied again.                                          *)
(***************************************************************************)
\* The caller's values without list entries.
ScalarValues ==
    [CustomResources EXCEPT
        !.devices.devices = <<>>, !.network.priorities = <<>>, !.hugepages.limits = <<>>,
        !.blkio.weight_device = <<>>, !.blkio.throttle_read_bps_device = <<>>,
        !.blkio.throttle_read_iops_device = <<>>,
        !.blkio.throttle_write_bps_device = <<>>,
        !.blkio.throttle_write_iops_device = <<>>]

\* Whether every list of a resource specification is empty.
ListsEmpty(res) ==
    /\ res.devices.devices = <<>> /\ res.network.priorities = <<>>
    /\ res.hugepages.limits = <<>>
    /\ res.blkio.weight_device = <<>> /\ res.blkio.throttle_read_bps_device = <<>>
    /\ res.blkio.throttle_read_iops_device = <<>>
    /\ res.blkio.throttle_write_bps_device = <<>>
    /\ res.blkio.throttle_write_iops_device = <<>>

\* The specifications applied twice: the defaults and the caller's values, with
\* every section, the cpu, the pid or the memory section flagged.
ScalarResources ==
    {WithFlags(v, flags) : v \in {DefaultResources, ScalarValues},
                           flags \in {Sections, {"cpu"}, {"pid"}, {"memory"}}}

\* The files on which the kernel refuses or adjusts during these applies.
ScalarFaults(res) ==
    {f \in Faults(res) : f.file \in {"none", "pids.max", "cpu.shares", "cpu.cfs_quota_us",
                                     "memory.limit_in_bytes"}}

\* The applies made in one behaviour.
MaxTwice == 2

\* What ApplyAgain keeps of the apply before it.
Before == [op |-> last.op, res |-> last.res, fault |-> last.fault, ret |-> last.ret]

\* cg.apply(&res) with a specification without list entries
ScalarApply ==
    \E res \in ScalarResources : \E fault \in ScalarFaults(res) :
        /\ cg.live
        /\ count < MaxTwice
        /\ \E r \in {Cgroup_apply(World(fault), cg.subsystems, res)} :
               Finish(r.w, cg,
                      [NoOp EXCEPT !.op = "apply", !.res = res, !.fault = fault,
                                   !.ret = r.ret, !.done = r.done, !.arg = Before], 1)

\* cg.apply(&res) once more, with the specification of the apply just made and the
\* kernel behaving as it did
ApplyAgain ==
    /\ cg.live
    /\ last.op = "apply"
    /\ count < MaxTwice
    /\ \E r \in {Cgroup_apply(World(last.fault), cg.subsystems, last.res)} :
           Finish(r.w, cg,
                  [NoOp EXCEPT !.op = "apply", !.res = last.res, !.fault = last.fault,
                               !.ret = r.ret, !.done = r.done, !.arg = Before], 1)

NextTwice == New \/ ScalarApply \/ ApplyAgain \/ Delete

SpecTwice == Init /\ [][NextTwice]_vars

\* An apply that repeats the apply made right before it.
Repeated ==
    /\ last.op = "apply"
    /\ last.arg.op = "apply"
    /\ last.arg.res = last.res
    /\ last.arg.fault = last.fault
    /\ ListsEmpty(last.res)

\* C22: an apply that repeats the apply before it, with a specification whose
\* lists are empty, returns what the first returned and leaves every kernel file
\* as the first left it.
C22_ApplyIdempotent ==
    Repeated => last.ret = last.arg.ret /\ kfile = kprev

\* A repeated apply of the caller's values whose first call changed the files and
\* failed on a value that the kernel adjusted.
C22_Witness ==
    /\ Repeated
    /\ last.res = WithFlags(ScalarValues, Sections)
    /\ last.fault.kind = "adjust"
    /\ ~last.ret.ok
    /\ kfile["group"] # DefaultFiles


\* C23: no core operation ends in a panic: every call returns, with a value or
\* with an error, for every group name.
C23_NoPanicAsClaimed == last.ret.err # "Panic"


(***************************************************************************)
(* Two callers that create the same group at the same time.                *)
(***************************************************************************)
\* The variables after a step of caller a that left the world w.
FinishActor(w, a, proc, record) ==
    /\ cg' = cg
    /\ kfile' = w.kfile
    /\ kdir' = w.kdir
    /\ kchild' = w.child
    /\ ktasks' = w.tasks
    /\ host' = w.host
    /\ trace' = w.trace
    /\ last' = record
    /\ kprev' = kfile
    /\ count' = count
    /\ procs' = [procs EXCEPT ![a] = proc]

\* The place of the pids controller in the subsystems of a caller's handle.
PidsAt(subs) == CHOOSE i \in 1..Len(subs) : subs[i].tag = "pids"

\* Cgroup::new(&hier, "g"), its first part: Cgroup::load
NewBegin(a) ==
    /\ procs[a].pc = "idle"
    /\ FinishActor(World(NoFault), a,
                   [Idle EXCEPT !.pc = "create", !.i = 1,
                                !.subs = load(Controllers, GroupName)],
                   [NoOp EXCEPT !.op = "load", !.arg = [actor |-> a]])

\* Cgroup::create, one turn of its loop: the create of the next subsystem.  After
\* the last one Cgroup::new returns the handle.
CreateStep(a) ==
    /\ procs[a].pc = "create"
    /\ \E r \in {Controller_create(World(NoFault), procs[a].subs[procs[a].i])} :
           FinishActor(r.w, a,
                       [procs[a] EXCEPT
                          !.pc = IF ~r.ret.ok THEN "panicked"
                                 ELSE IF procs[a].i = Len(procs[a].subs) THEN "held"
                                 ELSE "create",
                          !.i = @ + 1],
                       [NoOp EXCEPT !.op = "create", !.ret = r.ret, !.got = Ok(ktasks),
                                    !.arg = [actor |-> a,
                                             tag |-> procs[a].subs[procs[a].i].tag,
                                             existed |-> procs[a].subs[procs[a].i].tag
                                                            \in kdir]])

\* pids.set_pid_max(PidMax::Value(7)) through the handle that a caller holds
SetPidMaxBy(a) ==
    /\ procs[a].pc = "held"
    /\ \E r \in {set_pid_max(World(NoFault), procs[a].subs[PidsAt(procs[a].subs)],
                             PidMax_Value(7))} :
           FinishActor(r.w, a, procs[a],
                       [NoOp EXCEPT !.op = "set_pid_max", !.ret = r.ret,
                                    !.arg = [actor |-> a]])

\* pids.add_task(&CgroupPid::from(pid)) through the handle that a caller holds
AddTaskBy(a) ==
    \E pid \in ProcessIds :
        /\ procs[a].pc = "held"
        /\ \E r \in {Controller_add_task(World(NoFault),
                                         procs[a].subs[PidsAt(procs[a].subs)], pid)} :
               FinishActor(r.w, a, procs[a],
                           [NoOp EXCEPT !.op = "controller_add_task", !.ret = r.ret,
                                        !.arg = [actor |-> a, pid |-> pid]])

NextCreate ==
    \E a \in Actors : NewBegin(a) \/ CreateStep(a) \/ SetPidMaxBy(a) \/ AddTaskBy(a)

SpecCreate == Init /\ [][NextCreate]_vars

\* C24: of two callers that create the same group, in any interleaving, neither
\* fails; a caller that has its handle finds the group's directory in every
\* subsystem; and a create on a directory that exists changes no file, no task
\* and no directory.
C24_CreateTolerates ==
    /\ \A a \in Actors : procs[a].pc \in {"idle", "create", "held"}
    /\ \A a \in Actors :
           procs[a].pc = "held"
           => \A i \in 1..Len(procs[a].subs) : procs[a].subs[i].tag \in kdir
    /\ last.op = "create" /\ last.arg.existed
           => kfile = kprev /\ ktasks = last.got.v /\ last.ret.ok

\* Both callers hold a handle; the second finished its creates on directories that
\* existed, after the first had set a limit and attached a task.
C24_Witness ==
    /\ \A a \in Actors : procs[a].pc = "held"
    /\ last.op = "create" /\ last.arg.existed
    /\ kfile["group"]["pids.max"] # KernelDefault("pids.max")
    /\ ktasks["pids"] # <<>>

(***************************************************************************)
(* Two callers that apply to the same group at the same time.  Each system *)
(* call of an apply is one step; the kernel serialises the calls.          *)
(***************************************************************************)
\* What each caller applies: the cpu section alone, with values of its own.
ApplyOf(a) ==
    IF a = "A" THEN WithFlags(ScalarValues, {"cpu"})
    ELSE WithFlags([ScalarValues EXCEPT !.cpu.shares = 256, !.cpu.period = 50000,
                                        !.cpu.quota = 20000, !.cpu.cpus = <<"1">>],
                   {"cpu"})

\* A getter's value compared with the requested one, as CpuController::apply does:
\* the getter's error or a difference ends the apply, otherwise it goes on.
CheckedRead(g, want) ==
    IF ~g.ret.ok THEN [w |-> g.w, ret |-> g.ret, more |-> FALSE]
    ELSE IF g.ret.v # want THEN [w |-> g.w, ret |-> Err("Other"), more |-> FALSE]
    ELSE [w |-> g.w, ret |-> Ok(Unit), more |-> TRUE]

\* A setter whose result the apply drops
DroppedWrite(s, more) == [w |-> s.w, ret |-> Ok(Unit), more |-> more]

\* CpuController::apply, its k-th call
CpuApplyCall(w, ct, res, k) ==
    CASE k = 1 -> DroppedWrite(set_shares(w, ct, res.cpu.shares), TRUE)
      [] k = 2 -> CheckedRead(shares(w, ct), res.cpu.shares)
      [] k = 3 -> DroppedWrite(set_cfs_period(w, ct, res.cpu.period), TRUE)
      [] k = 4 -> CheckedRead(cfs_period(w, ct), res.cpu.period)
      [] k = 5 -> DroppedWrite(set_cfs_quota(w, ct, res.cpu.quota), TRUE)
      [] OTHER -> [CheckedRead(cfs_quota(w, ct), res.cpu.quota) EXCEPT !.more = FALSE]

\* CpuSetController::apply, its k-th call
CpuSetApplyCall(w, ct, res, k) ==
    IF k = 1 THEN DroppedWrite(set_cpus(w, ct, res.cpu.cpus), TRUE)
    ELSE DroppedWrite(set_mems(w, ct, res.cpu.mems), FALSE)

\* The k-th system call of a controller's apply: more tells whether the apply of
\* this controller goes on, ret is its result when it does not.  A controller that
\* makes no call for res is over in one step.
ApplyCall(w, ct, res, k) ==
    IF ct.tag = "cpu" /\ res.cpu.update_values THEN CpuApplyCall(w, ct, res, k)
    ELSE IF ct.tag = "cpuset" /\ res.cpu.update_values THEN CpuSetApplyCall(w, ct, res, k)
    ELSE Let(ControllerApply(w, ct, res), LAMBDA r :
             [w |-> r.w, ret |-> r.ret, more |-> FALSE])

\* cg.apply(&res) by caller a: the call begins
ApplyBegin(a) ==
    /\ cg.live
    /\ procs[a].pc = "idle"
    /\ cg.subsystems # <<>>
    /\ FinishActor(World(NoFault), a,
                   [Idle EXCEPT !.pc = "apply", !.i = 1, !.k = 1,
                                !.subs = cg.subsystems, !.res = ApplyOf(a)],
                   [NoOp EXCEPT !.op = "apply_begin", !.arg = [actor |-> a]])

\* cg.apply(&res) by caller a: its next system call.  try_fold ends at the first
\* controller that returns an error and after the last controller.
ApplyStep(a) ==
    /\ procs[a].pc = "apply"
    /\ \E r \in {ApplyCall(World(NoFault), procs[a].subs[procs[a].i], procs[a].res,
                           procs[a].k)} :
           FinishActor(r.w, a,
                       IF r.more THEN [procs[a] EXCEPT !.k = @ + 1]
                       ELSE IF ~r.ret.ok \/ procs[a].i = Len(procs[a].subs)
                       THEN [procs[a] EXCEPT !.pc = "done", !.ret = r.ret]
                       ELSE [procs[a] EXCEPT !.i = @ + 1, !.k = 1],
                       [NoOp EXCEPT !.op = "apply_call", !.ret = r.ret,
                                    !.arg = [actor |-> a,
                                             tag |-> procs[a].subs[procs[a].i].tag,
                                             k |-> procs[a].k]])

NextConcurrent == New \/ \E a \in Actors : ApplyBegin(a) \/ ApplyStep(a)

SpecConcurrent == Init /\ [][NextConcurrent]_vars

\* The files that an apply of the cpu section writes.
CpuSectionFiles == KernelFiles("cpu") \cup KernelFiles("cpuset")

\* What file f can hold: what the kernel gave it, or what it shows after one
\* write of one caller's apply.
WholeContents(f) ==
    {KernelDefault(f)} \cup
    {IF f \in KernelFiles("cpu") THEN RequestedContent(ApplyOf(a), f)
     ELSE IF f = "cpuset.cpus" THEN ApplyOf(a).cpu.cpus \o NL
     ELSE ApplyOf(a).cpu.mems \o NL : a \in Actors}

\* Whether caller a ran its apply with no call of the other caller in between.
Alone(a) == \A b \in Actors \ {a} : procs[b].pc = "idle"

\* C25: with two applies on one group in any interleaving, every file always
\* holds a value that one write of one call stored whole; an apply fails only by
\* reading back the other call's value; and an apply that ran alone succeeds and
\* leaves its own values.
C25_ApplyNotAtomic ==
    /\ \A f \in CpuSectionFiles : kfile["group"][f] \in WholeContents(f)
    /\ \A a \in Actors :
           procs[a].pc = "done" /\ ~procs[a].ret.ok
           => procs[a].ret.err = "Other" /\ ~Alone(a)
    /\ \A a \in Actors :
           procs[a].pc = "done" /\ Alone(a) /\ "cpu" \in kdir
               /\ (\E i \in 1..Len(procs[a].subs) : procs[a].subs[i].tag = "cpu")
           => \A f \in KernelFiles("cpu") :
                  kfile["group"][f] = RequestedContent(ApplyOf(a), f)

\* Both applies are over: A's failed on reading B's period between its own write
\* and read, B's succeeded, and the files mix A's shares with B's period and quota.
C25_Witness ==
    /\ \A a \in Actors : procs[a].pc = "done"
    /\ procs["A"].ret = Err("Other") /\ procs["B"].ret.ok
    /\ kfile["group"]["cpu.shares"] = RequestedContent(ApplyOf("A"), "cpu.shares")
    /\ kfile["group"]["cpu.cfs_period_us"] =
           RequestedContent(ApplyOf("B"), "cpu.cfs_period_us")
    /\ kfile["group"]["cpu.cfs_quota_us"] =
           RequestedContent(ApplyOf("B"), "cpu.cfs_quota_us")

(***************************************************************************)
(* NetPrioController: the map of interface priorities.                     *)
(***************************************************************************)
\* str::split_whitespace: the pieces between runs of whitespace
SplitWhitespace(l) == SelectSeq(SplitOn(l, {" ", "\t"}), LAMBDA piece : piece # <<>>)

\* Iterator::nth(n) on the pieces from position pos on: the item n places further
\* and the position after it; the items before it are consumed.
IterNth(pieces, pos, n) ==
    IF pos + n <= Len(pieces)
    THEN [some |-> TRUE, item |-> pieces[pos + n], pos |-> pos + n + 1]
    ELSE [some |-> FALSE, item |-> <<>>, pos |-> Len(pieces) + 1]

\* HashMap::insert
MapInsert(m, key, v) == [x \in DOMAIN m \cup {key} |-> IF x = key THEN v ELSE m[x]]
EmptyMap == [x \in {} |-> 0]

\* NetPrioController::ifpriomap, the body of its fold for one line
IfPrioFoldLine(acc, l) ==
    IF ~acc.ok THEN acc
    ELSE Let(SplitWhitespace(l), LAMBDA sp :
         Let(IterNth(sp, 1, 0), LAMBDA ifname :
         Let(IterNth(sp, ifname.pos, 1), LAMBDA ifprio :
             IF ~ifname.some \/ ~ifprio.some THEN Err("ParseError")
             ELSE Let(ParseU64(Trim(ifprio.item)), LAMBDA p :
                      IF ~p.ok THEN Err("ParseError")
                      ELSE Ok(MapInsert(acc.v, ifname.item, p.n))))))

RECURSIVE IfPrioFold(_, _, _)
IfPrioFold(ls, i, acc) ==
    IF i > Len(ls) THEN acc ELSE IfPrioFold(ls, i + 1, IfPrioFoldLine(acc, ls[i]))

\* NetPrioController::ifpriomap
ifpriomap(w, ct) ==
    Let(open_path(w, ct, "net_prio.ifpriomap", FALSE), LAMBDA o :
        IF ~o.ret.ok THEN o
        ELSE Let(read_to_string(o.w, o.ret.v), LAMBDA r :
                 [w |-> r.w, ret |-> IfPrioFold(Lines(r.ret.v), 1, Ok(EmptyMap))]))

\* The interfaces and priorities that the callers pass.
IfNames == Interfaces \cup {<<"w", "l", "0">>}
IfPrios == {0, 5, 7}

HasNetPrio == \E i \in 1..Len(cg.subsystems) : cg.subsystems[i].tag = "net_prio"

\* net_prio.set_if_prio(eif, prio)
SetIfPrio ==
    \E eif \in IfNames : \E prio \in IfPrios :
        /\ cg.live /\ HasNetPrio
        /\ \E r \in {set_if_prio(World(NoFault), ControllerOf("net_prio"), eif, prio)} :
               Finish(r.w, cg, [NoOp EXCEPT !.op = "set_if_prio", !.ret = r.ret,
                                            !.arg = [eif |-> eif, prio |-> prio]], 0)

\* net_prio.ifpriomap(), called after the last operation
IfPrioMap ==
    /\ cg.live /\ HasNetPrio
    /\ \E r \in {ifpriomap(World(NoFault), ControllerOf("net_prio"))} :
           Finish(r.w, cg,
                  [NoOp EXCEPT !.op = "ifpriomap", !.ret = r.ret,
                               !.arg = IF last.op = "set_if_prio" /\ last.ret.ok
                                       THEN [set |-> TRUE, eif |-> last.arg.eif,
                                             prio |-> last.arg.prio]
                                       ELSE [set |-> FALSE, eif |-> <<>>, prio |-> 0]], 0)

NextPrio == New \/ RootControlGroup \/ SetIfPrio \/ IfPrioMap \/ Delete

SpecPrio == Init /\ [][NextPrio]_vars

\* The lines of the group's net_prio.ifpriomap, each as its two fields.
PrioLines == Let(Lines(kfile["group"]["net_prio.ifpriomap"]), LAMBDA ls :
                 [i \in 1..Len(ls) |-> SplitOn(ls[i], {" "})])

\* C26: ifpriomap() on an existing group returns a map that holds, for every
\* line "<interface> <priority>" of the file, the interface with its priority; and
\* called after a set_if_prio(eif, prio) that succeeded, it maps eif to prio.
C26_IfPrioMapAsClaimed ==
    last.op = "ifpriomap" /\ Scope(ControllerOf("net_prio")) = "group"
                          /\ "net_prio" \in kdir =>
        /\ last.ret.ok
        /\ \A i \in 1..Len(PrioLines) :
               /\ PrioLines[i][1] \in DOMAIN last.ret.v
               /\ U64ToString(last.ret.v[PrioLines[i][1]]) = PrioLines[i][2]
        /\ last.arg.set
               => /\ last.arg.eif \in DOMAIN last.ret.v
                  /\ last.ret.v[last.arg.eif] = last.arg.prio

(***************************************************************************)
(* Cgroup::add_task on a group that is missing in some subsystems.         *)
(***************************************************************************)
\* The controllers whose directory a caller removes on its own.
RemovableControllers == {"memory", "cpu", "blkio"}

\* cg.controller_of::<T>().unwrap().delete(): the group's directory of one
\* controller is removed, the handle stays.
ControllerDelete ==
    \E i \in 1..Len(cg.subsystems) :
        /\ cg.live
        /\ cg.subsystems[i].tag \in RemovableControllers
        /\ \E r \in {Controller_delete(World(NoFault), cg.subsystems[i])} :
               Finish(r.w, cg, [NoOp EXCEPT !.op = "controller_delete",
                                            !.arg = cg.subsystems[i].tag], 0)

NextAttach == New \/ ControllerDelete \/ AddTask \/ Tasks \/ Delete

SpecAttach == Init /\ [][NextAttach]_vars

\* The pids attached to the group in controller c in a record of attachments.
AttachedIn(tasks, c) == {tasks[c][k] : k \in 1..Len(tasks[c])}

\* C27: Cgroup::add_task writes the pid to the tasks file of each subsystem in the
\* handle's order and stops at the first write that fails, whose error it returns:
\* every subsystem before the failing one holds the pid, the failing one and the
\* later ones are as before the call, and no later subsystem is asked.
C27_AddTaskFailFast ==
    last.op = "add_task" =>
        LET subs == cg.subsystems
            n == Len(trace)
        IN  /\ n <= Len(subs)
            /\ \A k \in 1..n :
                   /\ trace[k].c = subs[k].tag /\ trace[k].f = "tasks"
                   /\ trace[k].ok <=> (k < n \/ last.ret.ok)
            /\ last.ret.ok <=> (n = Len(subs) /\ \A k \in 1..n : trace[k].ok)
            /\ ~last.ret.ok => last.ret.err = "WriteFailed" /\ n >= 1
            /\ \A k \in 1..Len(subs) :
                   IF k < n \/ last.ret.ok
                   THEN last.arg \in AttachedIn(ktasks, subs[k].tag)
                   ELSE ktasks[subs[k].tag] = last.got.v[subs[k].tag]

\* An add_task that failed in a later subsystem for a pid that was attached
\* nowhere, and that tasks() lists now.
C27_Witness ==
    /\ last.op = "add_task" /\ ~last.ret.ok
    /\ Len(trace) > 1
    /\ \A c \in Controllers : last.arg \notin AttachedIn(last.got.v, c)
    /\ last.arg \in PidSet(TasksNow)

(***************************************************************************)
(* Cgroup::delete on a group that has tasks in some subsystems only.       *)
(***************************************************************************)
NextDeleteEach == New \/ AddTaskAt \/ RemoveTask \/ Delete

SpecDeleteEach == Init /\ [][NextDeleteEach]_vars

\* The removals that the last operation asked the system for.
Removals == SelectSeq(trace, LAMBDA e : e.op = "rmdir")

\* The subsystems of the consumed handle whose directory existed before the call.
Existing == SelectSeq(last.arg, LAMBDA ct : ct.tag \in last.got.v.dirs)

\* C28: Cgroup::delete asks for the removal of the group in every subsystem of
\* the handle whose directory exists, in the handle's order, also after a removal
\* that the kernel refused; a directory with attached tasks stays, every other is
\* removed, and the handle is consumed either way.
C28_DeleteEvery ==
    last.op = "delete" =>
        /\ ~cg.live
        /\ Len(Removals) = Len(Existing)
        /\ \A k \in 1..Len(Existing) :
               /\ Removals[k].c = Existing[k].tag
               /\ Removals[k].ok <=> last.got.v.tasks[Existing[k].tag] = <<>>
               /\ Existing[k].tag \in kdir <=> ~Removals[k].ok

\* A delete whose first removal was refused and that removed a later subsystem:
\* the group is left in some subsystems and the handle is gone.
C28_Witness ==
    /\ last.op = "delete"
    /\ ~cg.live
    /\ Len(Removals) > 1
    /\ ~Removals[1].ok
    /\ \E k \in 2..Len(Removals) : Removals[k].ok
    /\ kdir # {} /\ kdir # last.got.v.dirs

(***************************************************************************)
(* The files that an apply writes, by the flags of the sections.           *)
(***************************************************************************)
\* The files that the apply of controller c writes for res when its section is
\* flagged and nothing ends it early: one per scalar field, one per list entry.
SectionWrites(res, c) ==
    CASE c = "memory"   -> MemoryFiles
      [] c = "pids"     -> {"pids.max"}
      [] c = "cpuset"   -> {"cpuset.cpus", "cpuset.mems"}
      [] c = "cpu"      -> {"cpu.shares", "cpu.cfs_period_us", "cpu.cfs_quota_us"}
      [] c = "net_cls"  -> {"net_cls.classid"}
      [] c = "net_prio" -> IF res.network.priorities = <<>> THEN {}
                           ELSE {"net_prio.ifpriomap"}
      [] c = "hugetlb"  -> {HugeFile(res.hugepages.limits[i].size) :
                               i \in 1..Len(res.hugepages.limits)}
      [] c = "devices"  -> {IF res.devices.devices[i].allow THEN "devices.allow"
                            ELSE "devices.deny" : i \in 1..Len(res.devices.devices)}
      [] OTHER          -> {}

\* The files that the flags of res call for on a handle.
FlaggedWrites(res, subs) ==
    UNION {SectionWrites(res, subs[i].tag) :
             i \in {j \in 1..Len(subs) : SectionOf(subs[j].tag) \in FlagsOf(res)}}

\* The files that the last operation wrote to or tried to write to, and the texts
\* it wrote to file f.
WrittenFiles == {trace[k].f : k \in {j \in 1..Len(trace) : trace[j].op = "create"}}
WrittenTexts(f) ==
    {trace[k].text : k \in {j \in 1..Len(trace) : trace[j].op = "create" /\ trace[j].f = f}}

\* Whether the last apply asked every subsystem of the handle and none failed.
AppliedThrough ==
    /\ Len(last.done) = Len(cg.subsystems)
    /\ \A i \in 1..Len(last.done) : last.done[i].ret.ok

QuotaValues == {-1, -2, 0, 50000, 100000}

\* The decimal text of the quota read as an unsigned 64-bit number.
UnsignedQuotaText(q) ==
    CASE q = -1 -> <<"1", "8", "4", "4", "6", "7", "4", "4", "0", "7", "3", "7", "0",
                     "9", "5", "5", "1", "6", "1", "5">>
      [] q = -2 -> <<"1", "8", "4", "4", "6", "7", "4", "4", "0", "7", "3", "7", "0",
                     "9", "5", "5", "1", "6", "1", "4">>
      [] q = 0 -> <<"0">>
      [] q = 50000 -> <<"5", "0", "0", "0", "0">>
      [] q = 100000 -> <<"1", "0", "0", "0", "0", "0">>

\* The most applies of a quota explored in one behaviour.
MaxQuotaApplies == 2

HasCpu == \E i \in 1..Len(cg.subsystems) : cg.subsystems[i].tag = "cpu"

\* cpu.apply(&res) with the caller's shares and period and a quota of its choice
CpuApplyQuotaOf ==
    \E q \in QuotaValues : \E fault \in FileFaults("cpu.cfs_quota_us") :
    \E res \in {WithFlags([ScalarValues EXCEPT !.cpu.quota = q], {"cpu"})} :
        /\ cg.live /\ HasCpu /\ count < MaxQuotaApplies
        /\ \E r \in {CpuApply(World(fault), ControllerOf("cpu"), res)} :
               Finish(r.w, cg, [NoOp EXCEPT !.op = "cpu_apply", !.res = res,
                                            !.fault = fault, !.ret = r.ret, !.arg = q], 1)

NextQuota == New \/ CpuApplyQuotaOf \/ Delete

SpecQuota == Init /\ [][NextQuota]_vars

\* The texts that the last operation wrote to cpu.cfs_quota_us, and the file's
\* content parsed as read_u64_from parses it.
QuotaWrites == SelectSeq(trace, LAMBDA e : e.op = "create" /\ e.f = "cpu.cfs_quota_us")
QuotaRead == ParseU64(Trim(kfile["group"]["cpu.cfs_quota_us"]))

\* C30: the apply of the cpu controller writes the quota once, as the decimal text
\* of the quota read as an unsigned 64-bit number: of q for q >= 0, of q + 2^64
\* for q < 0; and it returns Ok only if the file then parses as an unsigned
\* number whose text is the text written.  A negative quota is never accepted.
C30_QuotaUnsigned ==
    last.op = "cpu_apply" /\ "cpu" \in kdir =>
        /\ Len(QuotaWrites) = 1
        /\ QuotaWrites[1].text = UnsignedQuotaText(last.arg)
        /\ last.ret.ok => QuotaRead.ok
                          /\ U64ToString(QuotaRead.n) = UnsignedQuotaText(last.arg)
        /\ last.arg < 0 => ~last.ret.ok /\ ~QuotaWrites[1].ok

\* An apply of the quota -1 on a group whose file held a limit that an earlier
\* apply had set: the text of 2^64 - 1 was written and refused, and the apply
\* failed with the limit still in the file.
C30_Witness ==
    /\ last.op = "cpu_apply" /\ last.arg = -1
    /\ QuotaWrites # <<>> /\ QuotaWrites[1].text = UnsignedQuotaText(-1)
    /\ last.ret = Err("Other")
    /\ kfile["group"]["cpu.cfs_quota_us"] = NumberContent(50000)

====
